---- MODULE Spec2Model ----
(***************************************************************************)
(* A model of wokkel/pubsub.py: the XEP-0060 request codec (PubSubRequest),*)
(* the service-side dispatcher (PubSubService) and its backend hooks.      *)
(*                                                                         *)
(* Conventions.                                                            *)
(*  - A Python dict (element attributes, form values, the instance         *)
(*    attributes of a request) is a function whose DOMAIN is the set of    *)
(*    keys present; KeyError / a None-valued attribute is "key not in      *)
(*    DOMAIN".                                                             *)
(*  - Node identifiers, element names and namespaces are TLA+ strings;     *)
(*    "" is the empty Python string.                                       *)
(*  - Strings that the code parses (JIDs, max_items) are sequences of      *)
(*    one-token strings, so that parsing and formatting are computed.      *)
(***************************************************************************)
EXTENDS Integers, Sequences, FiniteSets, TLC

VARIABLES
    backend,    \* which PubSubService class is running: "base" or "custom"
    clientReq,  \* the PubSubRequest the client last called send() on
    sendResult, \* what that send() did: raised, or the IQ it dispatched
    stanza,     \* the inbound IQ the service is handling
    request,    \* the PubSubRequest built by PubSubRequest.fromElement
    handler,    \* the verb whose _on_<verb> handler ran, "none" if none did
    calls,      \* backend operations invoked, in order
    backendDid, \* what the backend operation of the request did
    deferred,   \* state of the deferred returned by the backend operation
    result,     \* outcome of _onPubSubRequest (and of its callbacks)
    clientCall, \* the PubSubClient method whose callback waits for the reply
    clientResult, \* what the deferred of that method resolved to
    notified,   \* the notifyPublish / notifyDelete call made, if any
    outbox,     \* the stanzas the service handed to XMPPHandler.send, in order
    delivered,  \* the event messages handed to _onEvent, with what it did
    disco,      \* the getDiscoInfo / getDiscoItems call made, with what it did
    stream      \* the requests that arrived one after another on the stream

clientVars == <<clientCall, clientResult>>

notifyVars == <<notified, outbox>>

\* the variables outside the request exchange and the notifications
restVars == <<delivered, disco, stream>>

vars == <<backend, clientReq, sendResult, stanza, request, handler, calls,
          backendDid, deferred, result, clientVars, notifyVars, restVars>>

-----------------------------------------------------------------------------
(* Bounds of the model *)

\* longest max_items attribute value, in characters
MaxLen == 2
\* most <item/> children in a verb element or entries in a request's lists
MaxItems == 1
\* most notification triples (notifyPublish) or subscribers (notifyDelete)
\* in one call
MaxNotifications == 2

\* the most requests of one stream that are looked at together
MaxOutstanding == 2

-----------------------------------------------------------------------------
(* Wire vocabulary *)

NS_PUBSUB == "http://jabber.org/protocol/pubsub"
NS_PUBSUB_EVENT == "http://jabber.org/protocol/pubsub#event"
NS_PUBSUB_ERRORS == "http://jabber.org/protocol/pubsub#errors"
NS_PUBSUB_OWNER == "http://jabber.org/protocol/pubsub#owner"
NS_PUBSUB_NODE_CONFIG == "http://jabber.org/protocol/pubsub#node_config"
NS_PUBSUB_META_DATA == "http://jabber.org/protocol/pubsub#meta-data"
NS_PUBSUB_SUBSCRIBE_OPTIONS == "http://jabber.org/protocol/pubsub#subscribe_options"
NS_X_DATA == "jabber:x:data"

\* the empty dict
EmptyDict == <<>>

Has(d, k) == k \in DOMAIN d

\* d[k] = v on a dict
Put(d, k, v) == (k :> v) @@ d

\* Python truthiness of a string-valued entry: present and non-empty
TruthyStr(d, k) == Has(d, k) /\ d[k] # ""

-----------------------------------------------------------------------------
(* Exceptions *)

NoExc == [exc |-> "none"]

NotImplementedError == [exc |-> "NotImplementedError"]

AttributeError == [exc |-> "AttributeError"]

InvalidFormat == [exc |-> "InvalidFormat"]

PlainException == [exc |-> "Exception"]

\* error.StanzaError(condition, text, appCondition)
StanzaError(condition, text, appCondition) ==
    [exc |-> "StanzaError", condition |-> condition, text |-> text,
     appCondition |-> appCondition]

\* "no application condition" (appCondition=None)
NoAppCondition == EmptyDict

\* PubSubError.__init__: the application condition is an element of the
\* pubsub-errors namespace; `feature` is set only when truthy
PubSubError(condition, pubsubCondition, feature) ==
    StanzaError(condition, "",
        [uri |-> NS_PUBSUB_ERRORS, name |-> pubsubCondition,
         attrs |-> IF feature # "" THEN Put(EmptyDict, "feature", feature)
                                  ELSE EmptyDict])

\* BadRequest.__init__: appCondition only when pubsubCondition is truthy
BadRequest(pubsubCondition, text) ==
    StanzaError("bad-request", text,
        IF pubsubCondition # ""
        THEN [uri |-> NS_PUBSUB_ERRORS, name |-> pubsubCondition,
              attrs |-> EmptyDict]
        ELSE NoAppCondition)

\* variant: the refusal does not name the feature
UnsupportedWithoutFeature(feature) ==
    PubSubError("feature-not-implemented", "unsupported", "")

Unsupported(feature) ==
    PubSubError("feature-not-implemented", "unsupported", feature)

IsStanzaError(e) == e.exc = "StanzaError"

-----------------------------------------------------------------------------
(* JIDs: jid.internJID and JID.full, on strings given as token sequences *)

\* index of the first occurrence of token t in s, 0 when there is none
\* (str.find, shifted to 1-based indices)
Find(s, t) ==
    LET hits == {i \in 1..Len(s) : s[i] = t}
    IN  IF hits = {} THEN 0 ELSE CHOOSE i \in hits : \A j \in hits : i <= j

\* jid.parse followed by jid.prep: user@host/resource; a part that is the
\* empty string becomes None (here: the empty sequence); an empty host is
\* refused with InvalidFormat
InternJID(s) ==
    LET at == Find(s, "@")
        sl == Find(s, "/")
        n == Len(s)
        parts ==
            IF at = 0
            THEN IF sl = 0
                 THEN [user |-> <<>>, host |-> s, resource |-> <<>>]
                 ELSE [user |-> <<>>, host |-> SubSeq(s, 1, sl - 1),
                       resource |-> SubSeq(s, sl + 1, n)]
            ELSE IF sl = 0
                 THEN [user |-> SubSeq(s, 1, at - 1),
                       host |-> SubSeq(s, at + 1, n), resource |-> <<>>]
                 ELSE IF at < sl
                      THEN [user |-> SubSeq(s, 1, at - 1),
                            host |-> SubSeq(s, at + 1, sl - 1),
                            resource |-> SubSeq(s, sl + 1, n)]
                      ELSE [user |-> <<>>, host |-> SubSeq(s, 1, sl - 1),
                            resource |-> SubSeq(s, sl + 1, n)]
    IN  IF parts.host = <<>>
        THEN [exc |-> InvalidFormat]
        ELSE [exc |-> NoExc, jid |-> parts]

\* JID.full()
Full(j) ==
    (IF j.user # <<>> THEN j.user \o <<"@">> ELSE <<>>)
    \o j.host
    \o (IF j.resource # <<>> THEN <<"/">> \o j.resource ELSE <<>>)

-----------------------------------------------------------------------------
(* Integers: int(value) and unicode(n), on strings given as characters *)

Digits == <<"0", "1", "2", "3", "4", "5", "6", "7", "8", "9">>

IsDigit(c) == \E d \in 1..Len(Digits) : Digits[d] = c

DigitValue(c) == (CHOOSE d \in 1..Len(Digits) : Digits[d] = c) - 1

\* variant: the digits are weighted from the wrong end
RECURSIVE DigitsValueReversed(_)
DigitsValueReversed(s) ==
    IF s = <<>> THEN 0
    ELSE DigitsValueReversed(Tail(s)) * 10 + DigitValue(Head(s))

RECURSIVE DigitsValue(_)
DigitsValue(s) ==
    IF s = <<>> THEN 0
    ELSE DigitsValue(SubSeq(s, 1, Len(s) - 1)) * 10 + DigitValue(s[Len(s)])

AllDigits(s) == s # <<>> /\ \A i \in 1..Len(s) : IsDigit(s[i])

\* int(value): an optional sign followed by decimal digits, else ValueError
PyInt(s) ==
    IF AllDigits(s)
    THEN [exc |-> NoExc, value |-> DigitsValue(s)]
    ELSE IF s # <<>> /\ s[1] \in {"-", "+"} /\ AllDigits(Tail(s))
         THEN [exc |-> NoExc,
               value |-> IF s[1] = "-" THEN 0 - DigitsValue(Tail(s))
                                       ELSE DigitsValue(Tail(s))]
         ELSE [exc |-> [exc |-> "ValueError"]]

RECURSIVE NatStr(_)
NatStr(n) ==
    IF n < 10 THEN <<Digits[n + 1]>>
    ELSE NatStr(n \div 10) \o <<Digits[(n % 10) + 1]>>

\* unicode(n)
PyUnicode(n) == IF n < 0 THEN <<"-">> \o NatStr(0 - n) ELSE NatStr(n)


-----------------------------------------------------------------------------
(* XML elements.  An element is [uri, name, attrs, children]; a Data Form  *)
(* element <x xmlns='jabber:x:data' type=...> also carries `fields`, the   *)
(* var -> value mapping of its <field/> children (FORM_TYPE included).     *)

Element(uri, name, attrs, children) ==
    [uri |-> uri, name |-> name, attrs |-> attrs, children |-> children]

\* element[attr] = value
SetAttr(el, k, v) == [el EXCEPT !.attrs = Put(@, k, v)]

\* Item.__init__: an <item/> of the pubsub namespace; `attrs` holds the id,
\* if any
Item(attrs) == Element(NS_PUBSUB, "item", attrs, <<>>)

FormElement(formType, fields) ==
    [uri |-> NS_X_DATA, name |-> "x",
     attrs |-> Put(EmptyDict, "type", formType),
     children |-> <<>>, fields |-> fields]

\* data_form.Form.fromElement: only <x xmlns='jabber:x:data'/> is a form
\* (anything else raises data_form.Error); the form namespace is the value
\* of the FORM_TYPE field, the values are the other fields
IsFormElement(el) == el.uri = NS_X_DATA /\ el.name = "x"

FormFromElement(el) ==
    [formType |-> el.attrs["type"],
     formNamespace |-> IF Has(el.fields, "FORM_TYPE")
                       THEN el.fields["FORM_TYPE"] ELSE "",
     values |-> [k \in DOMAIN el.fields \ {"FORM_TYPE"} |-> el.fields[k]]]

-----------------------------------------------------------------------------
(* PubSubRequest: the two tables *)

Triple(t, ns, name) == <<t, ns, name>>

\* PubSubRequest._requestVerbMap
RequestVerbMap ==
    Triple("set", NS_PUBSUB, "publish") :> "publish"
    @@ Triple("set", NS_PUBSUB, "subscribe") :> "subscribe"
    @@ Triple("set", NS_PUBSUB, "unsubscribe") :> "unsubscribe"
    @@ Triple("get", NS_PUBSUB, "options") :> "optionsGet"
    @@ Triple("set", NS_PUBSUB, "options") :> "optionsSet"
    @@ Triple("get", NS_PUBSUB, "subscriptions") :> "subscriptions"
    @@ Triple("get", NS_PUBSUB, "affiliations") :> "affiliations"
    @@ Triple("set", NS_PUBSUB, "create") :> "create"
    @@ Triple("get", NS_PUBSUB_OWNER, "default") :> "default"
    @@ Triple("get", NS_PUBSUB_OWNER, "configure") :> "configureGet"
    @@ Triple("set", NS_PUBSUB_OWNER, "configure") :> "configureSet"
    @@ Triple("get", NS_PUBSUB, "items") :> "items"
    @@ Triple("set", NS_PUBSUB, "retract") :> "retract"
    @@ Triple("set", NS_PUBSUB_OWNER, "purge") :> "purge"
    @@ Triple("set", NS_PUBSUB_OWNER, "delete") :> "delete"
    @@ Triple("get", NS_PUBSUB_OWNER, "affiliations") :> "affiliationsGet"
    @@ Triple("set", NS_PUBSUB_OWNER, "affiliations") :> "affiliationsSet"
    @@ Triple("get", NS_PUBSUB_OWNER, "subscriptions") :> "subscriptionsGet"
    @@ Triple("set", NS_PUBSUB_OWNER, "subscriptions") :> "subscriptionsSet"

Verbs == {RequestVerbMap[k] : k \in DOMAIN RequestVerbMap}

\* PubSubRequest._verbRequestMap: the inverse of _requestVerbMap
VerbRequestMap ==
    [v \in Verbs |-> CHOOSE k \in DOMAIN RequestVerbMap : RequestVerbMap[k] = v]

\* PubSubRequest._parameters
Parameters ==
    "publish" :> <<"node", "items">>
    @@ "subscribe" :> <<"nodeOrEmpty", "jid">>
    @@ "unsubscribe" :> <<"nodeOrEmpty", "jid">>
    @@ "optionsGet" :> <<"nodeOrEmpty", "jid">>
    @@ "optionsSet" :> <<"nodeOrEmpty", "jid", "options">>
    @@ "subscriptions" :> <<>>
    @@ "affiliations" :> <<>>
    @@ "create" :> <<"nodeOrNone">>
    @@ "default" :> <<"default">>
    @@ "configureGet" :> <<"nodeOrEmpty">>
    @@ "configureSet" :> <<"nodeOrEmpty", "configure">>
    @@ "items" :> <<"node", "maxItems", "itemIdentifiers">>
    @@ "retract" :> <<"node", "itemIdentifiers">>
    @@ "purge" :> <<"node">>
    @@ "delete" :> <<"node">>
    @@ "affiliationsGet" :> <<>>
    @@ "affiliationsSet" :> <<>>
    @@ "subscriptionsGet" :> <<>>
    @@ "subscriptionsSet" :> <<>>

-----------------------------------------------------------------------------
(* PubSubRequest: parsing.  A request is the dict of its instance          *)
(* attributes that are not None.  Every parser returns the request as far  *)
(* as it got and the exception it raised (NoExc when it returned).         *)

Ok(r) == [request |-> r, exc |-> NoExc]

Raise(r, e) == [request |-> r, exc |-> e]

\* the children of el that are <item/> in the pubsub namespace, in order
ItemChildren(el) ==
    SelectSeq(el.children, LAMBDA c : c.uri = NS_PUBSUB /\ c.name = "item")

\* PubSubRequest._findForm: the loop keeps the last child that parses as a
\* Data Form; the comparison with NS_PUBSUB_NODE_CONFIG only `continue`s at
\* the end of the loop body and formNamespace is never consulted
FindForm(el, formNamespace) ==
    LET hits == {i \in 1..Len(el.children) : IsFormElement(el.children[i])}
        last == CHOOSE i \in hits : \A j \in hits : j <= i
    IN  IF hits = {} THEN [found |-> FALSE]
        ELSE [found |-> TRUE, form |-> FormFromElement(el.children[last])]

\* variant: a missing node attribute is read as the empty identifier
Parse_nodeDefaultEmpty(r, el) ==
    Ok(Put(r, "nodeIdentifier",
           IF Has(el.attrs, "node") THEN el.attrs["node"] ELSE ""))

Parse_node(r, el) ==
    IF Has(el.attrs, "node")
    THEN Ok(Put(r, "nodeIdentifier", el.attrs["node"]))
    ELSE Raise(r, BadRequest("nodeid-required", ""))

Parse_nodeOrEmpty(r, el) ==
    Ok(Put(r, "nodeIdentifier",
           IF Has(el.attrs, "node") THEN el.attrs["node"] ELSE ""))

Parse_nodeOrNone(r, el) ==
    IF Has(el.attrs, "node")
    THEN Ok(Put(r, "nodeIdentifier", el.attrs["node"]))
    ELSE Ok(r)

Parse_items(r, el) == Ok(Put(r, "items", ItemChildren(el)))

\* variant: a missing jid attribute leaves the subscriber None
Parse_jidOptional(r, el) ==
    IF ~Has(el.attrs, "jid") THEN Ok(r)
    ELSE IF InternJID(el.attrs["jid"]).exc # NoExc
         THEN Raise(r, InternJID(el.attrs["jid"]).exc)
         ELSE Ok(Put(r, "subscriber", InternJID(el.attrs["jid"]).jid))

Parse_jid(r, el) ==
    IF ~Has(el.attrs, "jid")
    THEN Raise(r, BadRequest("jid-required", ""))
    ELSE LET j == InternJID(el.attrs["jid"])
         IN  IF j.exc # NoExc THEN Raise(r, j.exc)
             ELSE Ok(Put(r, "subscriber", j.jid))

Parse_default(r, el) ==
    LET f == FindForm(el, NS_PUBSUB_NODE_CONFIG)
    IN  IF f.found /\ f.form.formType = "submit"
        THEN Ok(Put(r, "nodeType",
                    IF Has(f.form.values, "pubsub#node_type")
                    THEN f.form.values["pubsub#node_type"] ELSE "leaf"))
        ELSE Ok(Put(r, "nodeType", "leaf"))

\* variant: the type of the found form is not looked at
Parse_configureAnyType(r, el) ==
    LET f == FindForm(el, NS_PUBSUB_NODE_CONFIG)
    IN  IF f.found THEN Ok(Put(r, "options", f.form.values))
        ELSE Raise(r, BadRequest("", "Missing configuration form"))

Parse_configure(r, el) ==
    LET f == FindForm(el, NS_PUBSUB_NODE_CONFIG)
    IN  IF f.found
        THEN IF f.form.formType = "submit"
             THEN Ok(Put(r, "options", f.form.values))
             ELSE IF f.form.formType = "cancel"
                  THEN Ok(Put(r, "options", EmptyDict))
                  ELSE Raise(r, BadRequest("", "Unexpected form type"))
        ELSE Raise(r, BadRequest("", "Missing configuration form"))

\* the identifiers are appended one by one; the first <item/> without an id
\* raises BadRequest() with the list as far as it was built
Parse_itemIdentifiers(r, el) ==
    LET its == ItemChildren(el)
        bad == {i \in 1..Len(its) : ~Has(its[i].attrs, "id")}
        stop == IF bad = {} THEN Len(its) + 1
                ELSE CHOOSE i \in bad : \A j \in bad : i <= j
        ids == [i \in 1..(stop - 1) |-> its[i].attrs["id"]]
    IN  IF bad = {} THEN Ok(Put(r, "itemIdentifiers", ids))
        ELSE Raise(Put(r, "itemIdentifiers", ids), BadRequest("", ""))

Parse_maxItems(r, el) ==
    IF Has(el.attrs, "max_items") /\ el.attrs["max_items"] # <<>>
    THEN LET n == PyInt(el.attrs["max_items"])
         IN  IF n.exc # NoExc
             THEN Raise(r, BadRequest("",
                     "Field max_items requires a positive integer value"))
             ELSE Ok(Put(r, "maxItems", n.value))
    ELSE Ok(r)

Parse_options(r, el) ==
    LET f == FindForm(el, NS_PUBSUB_SUBSCRIBE_OPTIONS)
    IN  IF f.found
        THEN IF f.form.formType = "submit"
             THEN Ok(Put(r, "options", f.form.values))
             ELSE IF f.form.formType = "cancel"
                  THEN Ok(Put(r, "options", EmptyDict))
                  ELSE Raise(r, BadRequest("", "Unexpected form type"))
        ELSE Raise(r, BadRequest("", "Missing options form"))

\* getattr(self, '_parse_%s' % parameter)(child)
ParseParameter(parameter, r, el) ==
    CASE parameter = "node" -> Parse_node(r, el)
      [] parameter = "nodeOrEmpty" -> Parse_nodeOrEmpty(r, el)
      [] parameter = "nodeOrNone" -> Parse_nodeOrNone(r, el)
      [] parameter = "items" -> Parse_items(r, el)
      [] parameter = "jid" -> Parse_jid(r, el)
      [] parameter = "default" -> Parse_default(r, el)
      [] parameter = "configure" -> Parse_configure(r, el)
      [] parameter = "itemIdentifiers" -> Parse_itemIdentifiers(r, el)
      [] parameter = "maxItems" -> Parse_maxItems(r, el)
      [] parameter = "options" -> Parse_options(r, el)
      [] OTHER -> Raise(r, AttributeError)

\* the loop over self._parameters[verb]: the first exception ends it
RECURSIVE ParseParameters(_, _, _)
ParseParameters(ps, r, el) ==
    IF ps = <<>> THEN Ok(r)
    ELSE LET s == ParseParameter(Head(ps), r, el)
         IN  IF s.exc # NoExc THEN s
             ELSE ParseParameters(Tail(ps), s.request, el)

\* generic.Stanza.parseElement: sender, recipient and stanzaType from the
\* stanza's from, to and type
StanzaParseElement(iq) ==
    LET r1 == Put(EmptyDict, "stanzaType", iq.type)
        r2 == IF Has(iq.attrs, "from")
              THEN Put(r1, "sender", InternJID(iq.attrs["from"]).jid) ELSE r1
    IN  IF Has(iq.attrs, "to")
        THEN Put(r2, "recipient", InternJID(iq.attrs["to"]).jid) ELSE r2

\* variant: the stanza type is left out of the lookup
KeyOfAnyType(iq, child) == Triple("set", child.uri, child.name)

\* the key of the verb table for a child of <pubsub/>
KeyOf(iq, child) == Triple(iq.type, child.uri, child.name)

\* variant: the last child that the verb table knows binds the verb
ParseElementLastHit(iq) ==
    LET r0 == StanzaParseElement(iq)
        kids == iq.pubsub.children
        hits == {i \in 1..Len(kids) :
                    KeyOf(iq, kids[i]) \in DOMAIN RequestVerbMap}
        last == CHOOSE i \in hits : \A j \in hits : j <= i
        verb == RequestVerbMap[KeyOf(iq, kids[last])]
    IN  IF hits = {} THEN Raise(r0, NotImplementedError)
        ELSE ParseParameters(Parameters[verb], Put(r0, "verb", verb),
                             kids[last])

\* PubSubRequest.parseElement (called on a fresh PubSubRequest() by
\* fromElement): the first child of <pubsub/> whose key is in the verb
\* table binds the verb; its parameters are parsed from that child
ParseElement(iq) ==
    LET r0 == StanzaParseElement(iq)
        kids == iq.pubsub.children
        hits == {i \in 1..Len(kids) :
                    KeyOf(iq, kids[i]) \in DOMAIN RequestVerbMap}
        first == CHOOSE i \in hits : \A j \in hits : i <= j
        verb == RequestVerbMap[KeyOf(iq, kids[first])]
    IN  IF hits = {} THEN Raise(r0, NotImplementedError)
        ELSE ParseParameters(Parameters[verb], Put(r0, "verb", verb),
                             kids[first])

-----------------------------------------------------------------------------
(* PubSubRequest: rendering.  Every renderer returns the verb element as   *)
(* far as it got and the exception it raised.                              *)

Rendered(el) == [el |-> el, exc |-> NoExc]

RenderRaise(el, e) == [el |-> el, exc |-> e]

Render_node(r, el) ==
    IF ~TruthyStr(r, "nodeIdentifier") THEN RenderRaise(el, PlainException)
    ELSE Rendered(SetAttr(el, "node", r["nodeIdentifier"]))

Render_nodeOrEmpty(r, el) ==
    IF TruthyStr(r, "nodeIdentifier")
    THEN Rendered(SetAttr(el, "node", r["nodeIdentifier"]))
    ELSE Rendered(el)

Render_nodeOrNone(r, el) ==
    IF TruthyStr(r, "nodeIdentifier")
    THEN Rendered(SetAttr(el, "node", r["nodeIdentifier"]))
    ELSE Rendered(el)

Render_items(r, el) ==
    IF Has(r, "items")
    THEN Rendered([el EXCEPT !.children = @ \o r["items"]])
    ELSE Rendered(el)

\* self.subscriber.full(): None has no full()
Render_jid(r, el) ==
    IF Has(r, "subscriber")
    THEN Rendered(SetAttr(el, "jid", Full(r["subscriber"])))
    ELSE RenderRaise(el, AttributeError)

\* verbElement.addElement('item'): the child takes the verb element's
\* namespace
Render_itemIdentifiers(r, el) ==
    IF Has(r, "itemIdentifiers")
    THEN Rendered([el EXCEPT !.children = @ \o
            [i \in 1..Len(r["itemIdentifiers"]) |->
                Element(el.uri, "item",
                        Put(EmptyDict, "id", r["itemIdentifiers"][i]),
                        <<>>)]])
    ELSE Rendered(el)

Render_maxItems(r, el) ==
    IF Has(r, "maxItems") /\ r["maxItems"] # 0
    THEN Rendered(SetAttr(el, "max_items", PyUnicode(r["maxItems"])))
    ELSE Rendered(el)

\* getattr(self, '_render_%s' % parameter)(verbElement): the class defines
\* no _render_default, _render_configure or _render_options
RenderParameter(parameter, r, el) ==
    CASE parameter = "node" -> Render_node(r, el)
      [] parameter = "nodeOrEmpty" -> Render_nodeOrEmpty(r, el)
      [] parameter = "nodeOrNone" -> Render_nodeOrNone(r, el)
      [] parameter = "items" -> Render_items(r, el)
      [] parameter = "jid" -> Render_jid(r, el)
      [] parameter = "itemIdentifiers" -> Render_itemIdentifiers(r, el)
      [] parameter = "maxItems" -> Render_maxItems(r, el)
      [] OTHER -> RenderRaise(el, AttributeError)

\* the loop over self._parameters[self.verb]; `done` lists the parameters
\* whose renderer ran, in order
RECURSIVE RenderParameters(_, _, _, _)
RenderParameters(ps, r, el, done) ==
    IF ps = <<>> THEN [el |-> el, exc |-> NoExc, done |-> done]
    ELSE LET s == RenderParameter(Head(ps), r, el)
         IN  IF s.exc # NoExc
             THEN [el |-> s.el, exc |-> s.exc, done |-> done]
             ELSE RenderParameters(Tail(ps), r, s.el, Append(done, Head(ps)))

\* variant: the IQ is handed to iq.send() before the parameters are
\* rendered
SendBeforeRendering(r) ==
    IF ~Has(r, "verb") \/ r["verb"] \notin DOMAIN VerbRequestMap
    THEN [exc |-> NotImplementedError, sent |-> <<>>, rendered |-> <<>>]
    ELSE LET key == VerbRequestMap[r["verb"]]
             verbElement == Element(key[2], key[3], EmptyDict, <<>>)
             s == RenderParameters(Parameters[r["verb"]], r, verbElement,
                                   <<>>)
             iq == [type |-> key[1], attrs |-> EmptyDict,
                    pubsub |-> [uri |-> key[2], children |-> <<s.el>>]]
         IN  [exc |-> s.exc, sent |-> <<iq>>, rendered |-> s.done]

\* PubSubRequest.send: [exc, sent, rendered]; `sent` holds the IQs handed
\* to iq.send() (none when an exception was raised before)
Send(r) ==
    IF ~Has(r, "verb") \/ r["verb"] \notin DOMAIN VerbRequestMap
    THEN [exc |-> NotImplementedError, sent |-> <<>>, rendered |-> <<>>]
    ELSE LET key == VerbRequestMap[r["verb"]]
             verbElement == Element(key[2], key[3], EmptyDict, <<>>)
             a1 == IF Has(r, "sender")
                   THEN Put(EmptyDict, "from", Full(r["sender"]))
                   ELSE EmptyDict
             a2 == IF Has(r, "recipient")
                   THEN Put(a1, "to", Full(r["recipient"])) ELSE a1
             s == RenderParameters(Parameters[r["verb"]], r, verbElement,
                                   <<>>)
             iq == [type |-> key[1], attrs |-> a2,
                    pubsub |-> [uri |-> key[2], children |-> <<s.el>>]]
         IN  IF s.exc # NoExc
             THEN [exc |-> s.exc, sent |-> <<>>, rendered |-> s.done]
             ELSE [exc |-> NoExc, sent |-> <<iq>>, rendered |-> s.done]

-----------------------------------------------------------------------------
(* PubSubService: the backend operations *)

\* the feature each default backend method refuses with
BackendFeature ==
    "publish" :> "publish"
    @@ "subscribe" :> "subscribe"
    @@ "unsubscribe" :> "subscribe"
    @@ "subscriptions" :> "retrieve-subscriptions"
    @@ "affiliations" :> "retrieve-affiliations"
    @@ "create" :> "create-nodes"
    @@ "getDefaultConfiguration" :> "retrieve-default"
    @@ "getConfiguration" :> "config-node"
    @@ "setConfiguration" :> "config-node"
    @@ "items" :> "retrieve-items"
    @@ "retract" :> "retract-items"
    @@ "purge" :> "purge-nodes"
    @@ "delete" :> "delete-nodes"

\* the arguments of a call: the named attributes of the request that are
\* not None, plus the extra ones given
Args(r, names, extra) ==
    extra @@ [k \in DOMAIN r \cap names |-> r[k]]

\* A backend operation called with the given arguments.  The base class
\* raises Unsupported; an overriding class does what `beh` says: raise an
\* exception or return a deferred.
Backend(op, args, beh) ==
    [calls |-> <<[op |-> op, args |-> args]>>,
     exc |-> IF backend = "base" THEN Unsupported(BackendFeature[op])
             ELSE IF beh.kind = "raise" THEN beh.exc ELSE NoExc]

\* what the backend did, for the record: raised b.exc or returned a deferred
Did(b) ==
    IF b.exc = NoExc THEN [kind |-> "deferred"]
    ELSE [kind |-> "raised", exc |-> b.exc]

NotCalled == [kind |-> "none"]

\* PubSubService.getConfigurationOptions: {} in the base class, the
\* option schema (var -> field type) in an overriding one
GetConfigurationOptions ==
    IF backend = "base" THEN EmptyDict
    ELSE "pubsub#persist_items" :> "boolean"
         @@ "pubsub#node_type" :> "list-single"

\* data_form.Field.typeCheck: a boolean field takes only the lexical
\* forms of a boolean; any string is legal for the other types
TypeCheckOk(fieldType, value) ==
    fieldType = "boolean" => value \in {"0", "1", "true", "false"}

-----------------------------------------------------------------------------
(* PubSubService: the request handlers.  Each returns                      *)
(*   exc      the exception it raised (NoExc when it returned),            *)
(*   calls    the backend operations it invoked, in order,                 *)
(*   ret      what it returned: "deferred" (the backend's deferred),       *)
(*            "failed" (defer.fail(failure)) or "None",                    *)
(*   callback whether toResponse was added to the deferred,                *)
(*   did      what the backend operation did, if one was called.           *)

Outcome(b, callback) ==
    [exc |-> b.exc, calls |-> b.calls,
     ret |-> IF b.exc = NoExc THEN "deferred" ELSE "raised",
     callback |-> b.exc = NoExc /\ callback, did |-> Did(b)]

Refuse(e) ==
    [exc |-> e, calls |-> <<>>, ret |-> "raised", callback |-> FALSE,
     did |-> NotCalled]

On_publish(r, beh) ==
    Outcome(Backend("publish",
        Args(r, {"sender", "recipient", "nodeIdentifier", "items"}, EmptyDict),
        beh), FALSE)

On_subscribe(r, beh) ==
    Outcome(Backend("subscribe",
        Args(r, {"sender", "recipient", "nodeIdentifier", "subscriber"},
             EmptyDict), beh), TRUE)

On_unsubscribe(r, beh) ==
    Outcome(Backend("unsubscribe",
        Args(r, {"sender", "recipient", "nodeIdentifier", "subscriber"},
             EmptyDict), beh), FALSE)

On_optionsGet(r, beh) == Refuse(Unsupported("subscription-options"))

On_optionsSet(r, beh) == Refuse(Unsupported("subscription-options"))

On_subscriptions(r, beh) ==
    Outcome(Backend("subscriptions",
        Args(r, {"sender", "recipient"}, EmptyDict), beh), TRUE)

On_affiliations(r, beh) ==
    Outcome(Backend("affiliations",
        Args(r, {"sender", "recipient"}, EmptyDict), beh), TRUE)

On_create(r, beh) ==
    Outcome(Backend("create",
        Args(r, {"sender", "recipient", "nodeIdentifier"}, EmptyDict), beh),
        TRUE)

\* variant: the backend is asked whatever the nodeType
On_defaultWithoutPrecheck(r, beh) ==
    Outcome(Backend("getDefaultConfiguration",
        Args(r, {"sender", "recipient", "nodeType"}, EmptyDict), beh), TRUE)

\* a nodeType other than leaf or collection is answered with a failed
\* deferred before the backend is consulted
On_default(r, beh) ==
    IF ~(Has(r, "nodeType") /\ r["nodeType"] \in {"leaf", "collection"})
    THEN [exc |-> NoExc, calls |-> <<>>, ret |-> "failed",
          failure |-> StanzaError("not-acceptable", "", NoAppCondition),
          callback |-> FALSE, did |-> NotCalled]
    ELSE Outcome(Backend("getDefaultConfiguration",
            Args(r, {"sender", "recipient", "nodeType"}, EmptyDict), beh),
            TRUE)

On_configureGet(r, beh) ==
    Outcome(Backend("getConfiguration",
        Args(r, {"sender", "recipient", "nodeIdentifier"}, EmptyDict), beh),
        TRUE)

\* variant: the values are handed on whether the schema knows them or not
CheckConfigurationKeepsUnknown(values) ==
    LET options == GetConfigurationOptions
        known == DOMAIN values \cap DOMAIN options
    IN  IF \E k \in known : ~TypeCheckOk(options[k], values[k])
        THEN [exc |-> [exc |-> "data_form.Error"]]
        ELSE [exc |-> NoExc, values |-> values]

\* PubSubService._checkConfiguration: the values whose name is in the
\* option schema, each type-checked against its field type
CheckConfiguration(values) ==
    LET options == GetConfigurationOptions
        known == DOMAIN values \cap DOMAIN options
    IN  IF \E k \in known : ~TypeCheckOk(options[k], values[k])
        THEN [exc |-> [exc |-> "data_form.Error"]]
        ELSE [exc |-> NoExc, values |-> [k \in known |-> values[k]]]

\* with options that are None or empty the handler returns None at once
On_configureSet(r, beh) ==
    IF Has(r, "options") /\ r["options"] # EmptyDict
    THEN LET c == CheckConfiguration(r["options"])
             schemaCall == [op |-> "getConfigurationOptions",
                            args |-> EmptyDict]
         IN  IF c.exc # NoExc
             THEN [exc |-> c.exc, calls |-> <<schemaCall>>, ret |-> "raised",
                   callback |-> FALSE, did |-> NotCalled]
             ELSE LET b == Backend("setConfiguration",
                            Args(r, {"sender", "recipient", "nodeIdentifier"},
                                 Put(EmptyDict, "options", c.values)), beh)
                  IN  Outcome([b EXCEPT !.calls = <<schemaCall>> \o @], FALSE)
    ELSE [exc |-> NoExc, calls |-> <<>>, ret |-> "None", callback |-> FALSE,
          did |-> NotCalled]

On_items(r, beh) ==
    Outcome(Backend("items",
        Args(r, {"sender", "recipient", "nodeIdentifier", "maxItems",
                 "itemIdentifiers"}, EmptyDict), beh), TRUE)

On_retract(r, beh) ==
    Outcome(Backend("retract",
        Args(r, {"sender", "recipient", "nodeIdentifier", "itemIdentifiers"},
             EmptyDict), beh), FALSE)

On_purge(r, beh) ==
    Outcome(Backend("purge",
        Args(r, {"sender", "recipient", "nodeIdentifier"}, EmptyDict), beh),
        FALSE)

On_delete(r, beh) ==
    Outcome(Backend("delete",
        Args(r, {"sender", "recipient", "nodeIdentifier"}, EmptyDict), beh),
        FALSE)

On_affiliationsGet(r, beh) == Refuse(Unsupported("modify-affiliations"))

On_affiliationsSet(r, beh) == Refuse(Unsupported("modify-affiliations"))

On_subscriptionsGet(r, beh) == Refuse(Unsupported("manage-subscriptions"))

On_subscriptionsSet(r, beh) == Refuse(Unsupported("manage-subscriptions"))

\* getattr(self, '_on_%s' % request.verb)(request)
Dispatch(r, beh) ==
    CASE r["verb"] = "publish" -> On_publish(r, beh)
      [] r["verb"] = "subscribe" -> On_subscribe(r, beh)
      [] r["verb"] = "unsubscribe" -> On_unsubscribe(r, beh)
      [] r["verb"] = "optionsGet" -> On_optionsGet(r, beh)
      [] r["verb"] = "optionsSet" -> On_optionsSet(r, beh)
      [] r["verb"] = "subscriptions" -> On_subscriptions(r, beh)
      [] r["verb"] = "affiliations" -> On_affiliations(r, beh)
      [] r["verb"] = "create" -> On_create(r, beh)
      [] r["verb"] = "default" -> On_default(r, beh)
      [] r["verb"] = "configureGet" -> On_configureGet(r, beh)
      [] r["verb"] = "configureSet" -> On_configureSet(r, beh)
      [] r["verb"] = "items" -> On_items(r, beh)
      [] r["verb"] = "retract" -> On_retract(r, beh)
      [] r["verb"] = "purge" -> On_purge(r, beh)
      [] r["verb"] = "delete" -> On_delete(r, beh)
      [] r["verb"] = "affiliationsGet" -> On_affiliationsGet(r, beh)
      [] r["verb"] = "affiliationsSet" -> On_affiliationsSet(r, beh)
      [] r["verb"] = "subscriptionsGet" -> On_subscriptionsGet(r, beh)
      [] r["verb"] = "subscriptionsSet" -> On_subscriptionsSet(r, beh)
      [] OTHER -> Refuse(AttributeError)

\* the handler lookup and call of _onPubSubRequest, on the outcome p of
\* PubSubRequest.fromElement: a parse failure leaves before any handler is
\* looked up
HandleParsed(p, beh) ==
    IF p.exc # NoExc
    THEN [request |-> p.request, handled |-> FALSE, out |-> Refuse(p.exc)]
    ELSE [request |-> p.request, handled |-> TRUE,
          out |-> Dispatch(p.request, beh)]

\* PubSubService._onPubSubRequest: parse, then dispatch on the verb
OnPubSubRequest(iq, beh) == HandleParsed(ParseElement(iq), beh)

-----------------------------------------------------------------------------
(* PubSubService: the response composers (the toResponse callbacks).  A    *)
(* response is a sequence of at most one element: <<>> is None.            *)

\* Subscription.__init__
Subscription(attrs, subscriber, state) ==
    attrs @@ [subscriber |-> subscriber, state |-> state,
              options |-> EmptyDict]

\* variant: the node attribute is never written
SubscriptionElementWithoutNode(sub) ==
    Element(NS_PUBSUB, "subscription",
        [jid |-> Full(sub["subscriber"]), subscription |-> sub["state"]],
        <<>>)

\* the <subscription/> of the response to subscribe: node only for a
\* subscription with a node identifier
SubscriptionElement(sub) ==
    Element(NS_PUBSUB, "subscription",
        (IF TruthyStr(sub, "nodeIdentifier")
         THEN Put(EmptyDict, "node", sub["nodeIdentifier"]) ELSE EmptyDict)
        @@ [jid |-> Full(sub["subscriber"]), subscription |-> sub["state"]],
        <<>>)

ToResponse_subscribe(r, value) ==
    <<Element(NS_PUBSUB, "pubsub", EmptyDict, <<SubscriptionElement(value)>>)>>

ToResponse_subscriptions(r, value) ==
    <<Element(NS_PUBSUB, "pubsub", EmptyDict,
        <<Element(NS_PUBSUB, "subscriptions", EmptyDict,
            [i \in 1..Len(value) |->
                Element(NS_PUBSUB, "subscription",
                    [node |-> value[i]["nodeIdentifier"],
                     jid |-> Full(value[i]["subscriber"]),
                     subscription |-> value[i]["state"]], <<>>)])>>)>>

ToResponse_affiliations(r, value) ==
    <<Element(NS_PUBSUB, "pubsub", EmptyDict,
        <<Element(NS_PUBSUB, "affiliations", EmptyDict,
            [i \in 1..Len(value) |->
                Element(NS_PUBSUB, "affiliation",
                    [node |-> value[i][1], affiliation |-> value[i][2]],
                    <<>>)])>>)>>

\* variant: the assigned identifier is always reported
ToResponse_createAlways(r, value) ==
    <<Element(NS_PUBSUB, "pubsub", EmptyDict,
        <<Element(NS_PUBSUB, "create", Put(EmptyDict, "node", value),
                  <<>>)>>)>>

ToResponse_create(r, value) ==
    IF ~TruthyStr(r, "nodeIdentifier") \/ r["nodeIdentifier"] # value
    THEN <<Element(NS_PUBSUB, "pubsub", EmptyDict,
            <<Element(NS_PUBSUB, "create", Put(EmptyDict, "node", value),
                      <<>>)>>)>>
    ELSE <<>>

\* PubSubService._formFromConfiguration (with _makeFields): a form of type
\* `form` in the node-config namespace with one field per value whose name
\* is in the option schema
FormFromConfiguration(values) ==
    LET options == GetConfigurationOptions
    IN  FormElement("form",
            Put([k \in DOMAIN values \cap DOMAIN options |-> values[k]],
                "FORM_TYPE", NS_PUBSUB_NODE_CONFIG))

ToResponse_default(r, value) ==
    <<Element(NS_PUBSUB_OWNER, "pubsub", EmptyDict,
        <<Element(NS_PUBSUB_OWNER, "default", EmptyDict,
            <<FormFromConfiguration(value)>>)>>)>>

ToResponse_configureGet(r, value) ==
    <<Element(NS_PUBSUB_OWNER, "pubsub", EmptyDict,
        <<Element(NS_PUBSUB_OWNER, "configure",
            IF TruthyStr(r, "nodeIdentifier")
            THEN Put(EmptyDict, "node", r["nodeIdentifier"]) ELSE EmptyDict,
            <<FormFromConfiguration(value)>>)>>)>>

ToResponse_items(r, value) ==
    <<Element(NS_PUBSUB, "pubsub", EmptyDict,
        <<Element(NS_PUBSUB, "items",
            Put(EmptyDict, "node", r["nodeIdentifier"]), value)>>)>>

\* the callback added by _on_<verb>
ToResponse(r, value) ==
    CASE r["verb"] = "subscribe" -> ToResponse_subscribe(r, value)
      [] r["verb"] = "subscriptions" -> ToResponse_subscriptions(r, value)
      [] r["verb"] = "affiliations" -> ToResponse_affiliations(r, value)
      [] r["verb"] = "create" -> ToResponse_create(r, value)
      [] r["verb"] = "default" -> ToResponse_default(r, value)
      [] r["verb"] = "configureGet" -> ToResponse_configureGet(r, value)
      [] r["verb"] = "items" -> ToResponse_items(r, value)

-----------------------------------------------------------------------------
(* The reply to a request and PubSubClient.  A reply is the IQ the service *)
(* answers with: [type, children] for a result, [type, exc] for an error.  *)
(* The outcome of a client call is [kind |-> "fired", value |-> <<v>>]     *)
(* (<<>> for None) or [kind |-> "failed", exc |-> e].                      *)

SubscriptionPending == [exc |-> "SubscriptionPending"]

SubscriptionUnconfigured == [exc |-> "SubscriptionUnconfigured"]

TypeError == [exc |-> "TypeError"]

KeyError == [exc |-> "KeyError"]

\* IQHandlerMixin.handleRequest: the handler's response goes into an IQ
\* result; NotImplementedError becomes feature-not-implemented, a stanza
\* error is answered as it is, anything else as internal-server-error
HandleRequestReply(res) ==
    IF res.kind = "response"
    THEN [type |-> "result", children |-> res.payload]
    ELSE [type |-> "error",
          exc |-> IF res.exc = NotImplementedError
                  THEN StanzaError("feature-not-implemented", "",
                                   NoAppCondition)
                  ELSE IF IsStanzaError(res.exc) THEN res.exc
                  ELSE StanzaError("internal-server-error", "",
                                   NoAppCondition)]

\* element.<name>: the first child of that name, <<>> for None
FirstChildNamed(children, name) ==
    LET hits == {i \in 1..Len(children) : children[i].name = name}
    IN  IF hits = {} THEN <<>>
        ELSE <<children[CHOOSE i \in hits : \A j \in hits : i <= j]>>

Returned(value) == [kind |-> "fired", value |-> value]

Raised(e) == [kind |-> "failed", exc |-> e]

\* variant: the suggested identifier wins over the one in the response
CreateNodeCallbackPrefersRequested(r, iq) ==
    IF Has(r, "nodeIdentifier") THEN Returned(<<r["nodeIdentifier"]>>)
    ELSE LET pubsub == FirstChildNamed(iq.children, "pubsub")
         IN  IF pubsub = <<>> THEN Returned(<<>>)
             ELSE Returned(<<FirstChildNamed(pubsub[1].children,
                                             "create")[1].attrs["node"]>>)

\* cb of PubSubClient.createNode: iq.pubsub.create["node"], and the
\* suggested identifier when iq.pubsub is None (the AttributeError of
\* None.create is caught; the TypeError of None["node"] and the KeyError of
\* a missing attribute are not)
CreateNodeCallback(r, iq) ==
    LET pubsub == FirstChildNamed(iq.children, "pubsub")
        create == FirstChildNamed(pubsub[1].children, "create")
    IN  IF pubsub = <<>>
        THEN Returned(IF Has(r, "nodeIdentifier")
                      THEN <<r["nodeIdentifier"]>> ELSE <<>>)
        ELSE IF create = <<>> THEN Raised(TypeError)
        ELSE IF ~Has(create[1].attrs, "node") THEN Raised(KeyError)
        ELSE Returned(<<create[1].attrs["node"]>>)

\* variant: every answered subscription counts as active
SubscribeCallbackIgnoresState(r, iq) == Returned(<<>>)

\* cb of PubSubClient.subscribe: iq.pubsub.subscription["subscription"]
\* decides between SubscriptionPending, SubscriptionUnconfigured and None
SubscribeCallback(r, iq) ==
    LET pubsub == FirstChildNamed(iq.children, "pubsub")
        subscription == FirstChildNamed(pubsub[1].children, "subscription")
    IN  IF pubsub = <<>> THEN Raised(AttributeError)
        ELSE IF subscription = <<>> THEN Raised(TypeError)
        ELSE IF ~Has(subscription[1].attrs, "subscription")
             THEN Raised(KeyError)
        ELSE IF subscription[1].attrs["subscription"] = "pending"
             THEN Raised(SubscriptionPending)
        ELSE IF subscription[1].attrs["subscription"] = "unconfigured"
             THEN Raised(SubscriptionUnconfigured)
        ELSE Returned(<<>>)

\* the deferred of request.send with the callback the client method added:
\* an IQ result fires it and runs the callback, an IQ error fails it with
\* the stanza error and the callback is skipped
ClientDeferred(call, r, iq) ==
    IF iq.type = "error" THEN Raised(iq.exc)
    ELSE CASE call = "createNode" -> CreateNodeCallback(r, iq)
           [] call = "subscribe" -> SubscribeCallback(r, iq)
           [] OTHER -> Returned(<<iq>>)

-----------------------------------------------------------------------------
(* PubSubService: notifications.  A message is an element without          *)
(* namespace; the text of a <header/> is the one member of its children.   *)

NS_SHIM == "http://jabber.org/protocol/shim"

\* shim.Headers: <headers xmlns=shim/> with one <header name=.../> per
\* (name, value) pair, in order; the value is the header's text
Headers(headers) ==
    Element(NS_SHIM, "headers", EmptyDict,
        [i \in 1..Len(headers) |->
            Element(NS_SHIM, "header", Put(EmptyDict, "name", headers[i][1]),
                    headers[i][2])])

\* XMPPHandler.send: the stanza goes out on the stream after those sent
\* before it
HandlerSend(box, obj) == Append(box, obj)

\* the text a subscription's node gives a header: nothing for None
NodeText(subscription) ==
    IF Has(subscription, "nodeIdentifier")
    THEN <<subscription["nodeIdentifier"]>> ELSE <<>>

\* variant: a header for every subscription, whatever its node
CollectionHeadersForAll(nodeIdentifier, subscriptions) ==
    IF subscriptions = <<>> \/ subscriptions[1] = <<>> THEN <<>>
    ELSE [i \in 1..Len(subscriptions[1]) |->
            <<"Collection", NodeText(subscriptions[1][i])>>]

\* the loop of _createNotification over the subscriptions: one
\* ('Collection', node) pair per subscription whose node is not the
\* event's; `subscriptions` is <<>> for None, <<list>> for a list
CollectionHeaders(nodeIdentifier, subscriptions) ==
    IF subscriptions = <<>> \/ subscriptions[1] = <<>> THEN <<>>
    ELSE LET l == subscriptions[1]
             differs(i) == \/ ~Has(l[i], "nodeIdentifier")
                           \/ l[i]["nodeIdentifier"] # nodeIdentifier
             picked == SelectSeq([i \in 1..Len(l) |-> i], differs)
         IN  [k \in 1..Len(picked) |->
                <<"Collection", NodeText(l[picked[k]])>>]

\* PubSubService._createNotification; `subs` is the subscriptions
\* argument: <<>> for None, <<list>> for a list
CreateNotification(eventType, service, nodeIdentifier, subscriber, subs) ==
    LET headers == CollectionHeaders(nodeIdentifier, subs)
        element == Element(NS_PUBSUB_EVENT, eventType,
                           Put(EmptyDict, "node", nodeIdentifier), <<>>)
        event == Element(NS_PUBSUB_EVENT, "event", EmptyDict, <<element>>)
    IN  Element("", "message",
                [from |-> Full(service), to |-> Full(subscriber)],
                IF headers # <<>> THEN <<event, Headers(headers)>>
                ELSE <<event>>)

\* variant: the notifications are sent last first
RECURSIVE NotifyPublishReversed(_, _, _, _)
NotifyPublishReversed(service, nodeIdentifier, notifications, box) ==
    IF notifications = <<>> THEN box
    ELSE LET n == notifications[Len(notifications)]
             message == CreateNotification("items", service, nodeIdentifier,
                                           n.subscriber, n.subscriptions)
         IN  NotifyPublishReversed(service, nodeIdentifier,
                SubSeq(notifications, 1, Len(notifications) - 1),
                HandlerSend(box,
                    [message EXCEPT !.children[1].children[1].children =
                                        n.items]))

\* PubSubService.notifyPublish: for each (subscriber, subscriptions, items)
\* in turn, the notification is built, the children of its <items/> are
\* set to the items, and it is sent
RECURSIVE NotifyPublish(_, _, _, _)
NotifyPublish(service, nodeIdentifier, notifications, box) ==
    IF notifications = <<>> THEN box
    ELSE LET n == Head(notifications)
             message == CreateNotification("items", service, nodeIdentifier,
                                           n.subscriber, n.subscriptions)
         IN  NotifyPublish(service, nodeIdentifier, Tail(notifications),
                HandlerSend(box,
                    [message EXCEPT !.children[1].children[1].children =
                                        n.items]))

\* variant: the redirect is added to the first message only
RECURSIVE NotifyDeleteRedirectOnce(_, _, _, _, _)
NotifyDeleteRedirectOnce(service, nodeIdentifier, subscribers, uri, box) ==
    IF subscribers = <<>> THEN box
    ELSE LET message == CreateNotification("delete", service, nodeIdentifier,
                                           Head(subscribers), <<>>)
             redirect == Element(NS_PUBSUB_EVENT, "redirect",
                                 Put(EmptyDict, "uri", uri[1]), <<>>)
         IN  NotifyDeleteRedirectOnce(service, nodeIdentifier,
                Tail(subscribers), uri,
                HandlerSend(box,
                    IF uri # <<>> /\ uri[1] # "" /\ box = <<>>
                    THEN [message EXCEPT !.children[1].children[1].children =
                                            Append(@, redirect)]
                    ELSE message))

\* PubSubService.notifyDelete: one <delete/> notification per subscriber,
\* with a <redirect uri=.../> in it when redirectURI is given and not
\* empty; `uri` is the redirectURI: <<>> for None, <<string>> for a string
RECURSIVE NotifyDelete(_, _, _, _, _)
NotifyDelete(service, nodeIdentifier, subscribers, uri, box) ==
    IF subscribers = <<>> THEN box
    ELSE LET message == CreateNotification("delete", service, nodeIdentifier,
                                           Head(subscribers), <<>>)
             redirect == Element(NS_PUBSUB_EVENT, "redirect",
                                 Put(EmptyDict, "uri", uri[1]), <<>>)
         IN  NotifyDelete(service, nodeIdentifier, Tail(subscribers),
                uri,
                HandlerSend(box,
                    IF uri # <<>> /\ uri[1] # ""
                    THEN [message EXCEPT !.children[1].children[1].children =
                                            Append(@, redirect)]
                    ELSE message))

-----------------------------------------------------------------------------
(* PubSubClient: inbound events.  An event is the record of the attributes *)
(* of the PubSubEvent object; the outcome of _onEvent is the callbacks it  *)
(* invoked with their events, the exception that escaped it (NoExc when it *)
(* returned) and whether it set message.handled.                           *)

\* shim.extractHeaders: every header name of the message's <headers/> of
\* the SHIM namespace maps to the values of the headers of that name, in
\* order
ExtractHeaders(message) ==
    LET blocks == SelectSeq(message.children,
                    LAMBDA c : c.uri = NS_SHIM /\ c.name = "headers")
        headersOf(b) == SelectSeq(b.children,
                    LAMBDA h : h.uri = NS_SHIM /\ h.name = "header")
        all == IF blocks = <<>> THEN <<>> ELSE headersOf(blocks[1])
        names == {all[i].attrs["name"] : i \in 1..Len(all)}
        named(n) == SelectSeq(all, LAMBDA h : h.attrs["name"] = n)
    IN  [n \in names |-> [i \in 1..Len(named(n)) |-> named(n)[i].children]]

PubSubEvent(class, sender, recipient, nodeIdentifier, headers) ==
    [class |-> class, sender |-> sender, recipient |-> recipient,
     nodeIdentifier |-> nodeIdentifier, headers |-> headers]

ItemsEvent(sender, recipient, nodeIdentifier, items, headers) ==
    PubSubEvent("ItemsEvent", sender, recipient, nodeIdentifier, headers)
        @@ [items |-> items]

\* DeleteEvent.redirectURI is None (<<>>) until it is assigned
DeleteEvent(sender, recipient, nodeIdentifier, headers) ==
    PubSubEvent("DeleteEvent", sender, recipient, nodeIdentifier, headers)
        @@ [redirectURI |-> <<>>]

PurgeEvent(sender, recipient, nodeIdentifier, headers) ==
    PubSubEvent("PurgeEvent", sender, recipient, nodeIdentifier, headers)

\* the event handler called the callback with the event and returned
Invoked(callback, event) ==
    [calls |-> <<[callback |-> callback, event |-> event]>>, exc |-> NoExc]

\* the event handler raised before it called a callback
NotInvoked(e) == [calls |-> <<>>, exc |-> e]

\* action["node"] raises KeyError when the action has no node attribute
OnEvent_items(sender, recipient, action, headers) ==
    IF ~Has(action.attrs, "node") THEN NotInvoked(KeyError)
    ELSE Invoked("itemsReceived",
            ItemsEvent(sender, recipient, action.attrs["node"],
                SelectSeq(action.children,
                          LAMBDA c : c.name \in {"item", "retract"}),
                headers))

\* variant: the <redirect/> child is not looked at
OnEvent_deleteWithoutRedirect(sender, recipient, action, headers) ==
    IF ~Has(action.attrs, "node") THEN NotInvoked(KeyError)
    ELSE Invoked("deleteReceived",
            DeleteEvent(sender, recipient, action.attrs["node"], headers))

\* action.redirect is the first child named redirect; getAttribute('uri')
\* is None when it has no uri
OnEvent_delete(sender, recipient, action, headers) ==
    LET redirect == FirstChildNamed(action.children, "redirect")
        event == DeleteEvent(sender, recipient, action.attrs["node"], headers)
    IN  IF ~Has(action.attrs, "node") THEN NotInvoked(KeyError)
        ELSE Invoked("deleteReceived",
                IF redirect = <<>> THEN event
                ELSE [event EXCEPT !.redirectURI =
                        IF Has(redirect[1].attrs, "uri")
                        THEN <<redirect[1].attrs["uri"]>> ELSE <<>>])

OnEvent_purge(sender, recipient, action, headers) ==
    IF ~Has(action.attrs, "node") THEN NotInvoked(KeyError)
    ELSE Invoked("purgeReceived",
            PurgeEvent(sender, recipient, action.attrs["node"], headers))

\* the body of _onEvent up to the call of the event handler: `found` says
\* whether an event handler was looked up and called.  The action element
\* is the last child of <event/> in the pubsub-event namespace.
OnEventDispatch(message) ==
    LET dropped == [found |-> FALSE, calls |-> <<>>, exc |-> NoExc]
        sender == InternJID(message.attrs["from"])
        recipient == InternJID(message.attrs["to"])
        event == FirstChildNamed(message.children, "event")[1]
        hits == {i \in 1..Len(event.children) :
                    event.children[i].uri = NS_PUBSUB_EVENT}
        action == event.children[CHOOSE i \in hits : \A j \in hits : j <= i]
        headers == ExtractHeaders(message)
        called(o) == [found |-> TRUE, calls |-> o.calls, exc |-> o.exc]
    IN  IF ~Has(message.attrs, "from") THEN dropped
        ELSE IF sender.exc # NoExc
             THEN [found |-> FALSE, calls |-> <<>>, exc |-> sender.exc]
        ELSE IF ~Has(message.attrs, "to") THEN dropped
        ELSE IF recipient.exc # NoExc
             THEN [found |-> FALSE, calls |-> <<>>, exc |-> recipient.exc]
        ELSE IF hits = {} THEN dropped
        ELSE CASE action.name = "items" ->
                    called(OnEvent_items(sender.jid, recipient.jid, action,
                                         headers))
               [] action.name = "delete" ->
                    called(OnEvent_delete(sender.jid, recipient.jid, action,
                                          headers))
               [] action.name = "purge" ->
                    called(OnEvent_purge(sender.jid, recipient.jid, action,
                                         headers))
               [] OTHER -> dropped

\* variant: message.handled is never set
OnEventNeverHandled(message) ==
    [message |-> message, calls |-> OnEventDispatch(message).calls,
     exc |-> OnEventDispatch(message).exc, handled |-> FALSE]

\* PubSubClient._onEvent: message.handled is set after the event handler
\* returned
OnEvent(message) ==
    [message |-> message, calls |-> OnEventDispatch(message).calls,
     exc |-> OnEventDispatch(message).exc,
     handled |-> OnEventDispatch(message).found
                    /\ OnEventDispatch(message).exc = NoExc]

-----------------------------------------------------------------------------
(* PubSubService: service discovery.  The node identifier of a disco       *)
(* request is <<>> for None and <<string>> otherwise; the configuration of *)
(* the service is the dict of its instance attributes.  A disco call is    *)
(* [info, calls, state, exc]: the list built so far, the backend           *)
(* operations invoked, and whether the call raised, waits for the backend  *)
(* or returned a fired deferred.                                          *)

NS_DISCO_ITEMS == "http://jabber.org/protocol/disco#items"

ValueError == [exc |-> "ValueError"]

\* disco.DiscoIdentity(category, type, name=None); `name` is <<>> for None
DiscoIdentity(category, idType, name) ==
    [kind |-> "identity", category |-> category, type |-> idType,
     name |-> name]

\* disco.DiscoFeature(var); `var` is the sequence of the parts the string
\* is formatted from
DiscoFeature(var) == [kind |-> "feature", var |-> var]

\* disco.DiscoItem(entity, nodeIdentifier)
DiscoItem(entity, nodeIdentifier) ==
    [kind |-> "item", entity |-> entity, nodeIdentifier |-> nodeIdentifier]

\* `if nodeIdentifier`: neither None nor the empty string
Given(nodeIdentifier) == nodeIdentifier # <<>> /\ nodeIdentifier[1] # ""

\* PubSubService.__init__: the attributes of a freshly constructed service
DefaultConfig ==
    [discoIdentity |-> [category |-> "pubsub", type |-> "generic",
                        name |-> "Generic Publish-Subscribe Service"],
     pubSubFeatures |-> <<>>]

\* the orders in which iterating a dict can yield its keys
KeyOrders(d) ==
    {o \in [1..Cardinality(DOMAIN d) -> DOMAIN d] :
        \A i, j \in DOMAIN o : o[i] = o[j] => i = j}

\* the service-level entries of getDiscoInfo: `category, idType, name =
\* self.discoIdentity` unpacks the keys of the dict, in the order `order`
\* in which iterating it yields them
ServiceInfo(config, order) ==
    <<DiscoIdentity(order[1], order[2], <<order[3]>>),
      DiscoFeature(<<NS_DISCO_ITEMS>>)>>
    \o [i \in 1..Len(config.pubSubFeatures) |->
            DiscoFeature(<<NS_PUBSUB, "#", config.pubSubFeatures[i]>>)]

\* data_form.Field.fromDict: a field with the var and the value of the
\* dict and its label, if it has one
FieldFromDict(d) ==
    [var |-> d["var"], value |-> d["value"],
     label |-> IF Has(d, "label") THEN <<d["label"]>> ELSE <<>>]

\* data_form.Form(formType="result", formNamespace=NS_PUBSUB_META_DATA)
\* with the pubsub#node_type field and one field per meta datum
MetaDataForm(nodeType, metaData) ==
    [kind |-> "form", formType |-> "result",
     formNamespace |-> NS_PUBSUB_META_DATA,
     fields |-> <<[var |-> "pubsub#node_type", value |-> nodeType,
                   label |-> <<"The type of node (collection or leaf)">>]>>
                \o [i \in 1..Len(metaData) |-> FieldFromDict(metaData[i])]]

\* the callbacks of getDiscoInfo on the deferred of getNodeInfo: toInfo
\* appends the node's identity and meta-data form to info (nothing when
\* the node info is None or empty; a KeyError of a missing 'type' or
\* 'meta-data' is raised before anything is appended), and addBoth returns
\* info whatever the deferred or toInfo did.  `lookup` is what the deferred
\* resolved to: [kind |-> "fired", value |-> <<>> or <<nodeInfo>>] or
\* [kind |-> "failed", exc |-> e]
ToInfo(info, lookup) ==
    [state |-> "fired",
     value |->
        IF lookup.kind = "failed" \/ lookup.value = <<>> THEN info
        ELSE LET nodeInfo == lookup.value[1]
             IN  IF DOMAIN nodeInfo = {} THEN info
                 ELSE IF ~Has(nodeInfo, "type") \/ ~Has(nodeInfo, "meta-data")
                      THEN info
                 ELSE info
                      \o <<DiscoIdentity("pubsub", nodeInfo["type"], <<>>)>>
                      \o IF nodeInfo["meta-data"] # <<>>
                         THEN <<MetaDataForm(nodeInfo["type"],
                                             nodeInfo["meta-data"])>>
                         ELSE <<>>]

\* PubSubService.getDiscoInfo up to its return: the base getNodeInfo
\* returns None, and None has no addCallback
GetDiscoInfo(service, config, nodeIdentifier, order) ==
    LET info == IF ~Given(nodeIdentifier) THEN ServiceInfo(config, order)
                ELSE <<>>
        call == [op |-> "getNodeInfo",
                 nodeIdentifier |-> IF Given(nodeIdentifier)
                                    THEN nodeIdentifier[1] ELSE ""]
    IN  IF ~Given(nodeIdentifier) /\ Len(order) # 3
        THEN [info |-> <<>>, calls |-> <<>>, state |-> "raised",
              exc |-> ValueError]
        ELSE IF service = "base"
             THEN [info |-> info, calls |-> <<call>>, state |-> "raised",
                   exc |-> AttributeError]
             ELSE [info |-> info, calls |-> <<call>>, state |-> "pending",
                   exc |-> NoExc]

\* PubSubService.getDiscoItems up to its return: __init__ does not set
\* hideNodes, so reading it raises AttributeError unless the attribute was
\* assigned; the base getNodes returns a list, and a list has no
\* addCallback
GetDiscoItems(service, config, nodeIdentifier) ==
    IF Given(nodeIdentifier)
    THEN [info |-> <<>>, calls |-> <<>>, state |-> "fired", exc |-> NoExc]
    ELSE IF ~Has(config, "hideNodes")
         THEN [info |-> <<>>, calls |-> <<>>, state |-> "raised",
               exc |-> AttributeError]
    ELSE IF config["hideNodes"]
         THEN [info |-> <<>>, calls |-> <<>>, state |-> "fired",
               exc |-> NoExc]
    ELSE IF service = "base"
         THEN [info |-> <<>>, calls |-> <<[op |-> "getNodes"]>>,
               state |-> "raised", exc |-> AttributeError]
    ELSE [info |-> <<>>, calls |-> <<[op |-> "getNodes"]>>,
          state |-> "pending", exc |-> NoExc]

\* the callback of getDiscoItems: one DiscoItem per node, bound to target
ToItems(target, nodes) ==
    [i \in 1..Len(nodes) |-> DiscoItem(target, nodes[i])]

-----------------------------------------------------------------------------
(* The inputs *)

\* the characters max_items values are made of
Alphabet == {"0", "1", "-", "a"}

\* the strings of at most n characters
Strings(n) == UNION {[1..k -> Alphabet] : k \in 0..n}

\* the sequences of at most n members of S
SeqsUpTo(S, n) == UNION {[1..k -> S] : k \in 0..n}

UserJidString == <<"user", "@", "example", "/", "home">>

ServiceJidString == <<"pubsub.example">>

SubscriberJidString == <<"user", "@", "example">>

\* a jid attribute that is present but has no host part
InvalidJidString == <<"user", "@">>

UserJID == InternJID(UserJidString).jid

ServiceJID == InternJID(ServiceJidString).jid

SubscriberJID == InternJID(SubscriberJidString).jid

NodeIds == {"news", "blog"}

ItemIds == {"1", "2"}

ItemElements == {Item(EmptyDict)} \cup {Item(Put(EmptyDict, "id", "1"))}

FormFieldSets ==
    { Put(EmptyDict, "FORM_TYPE", NS_PUBSUB_NODE_CONFIG),
      "FORM_TYPE" :> NS_PUBSUB_NODE_CONFIG @@ "pubsub#node_type" :> "foo",
      "FORM_TYPE" :> NS_PUBSUB_NODE_CONFIG
          @@ "pubsub#node_type" :> "collection",
      "FORM_TYPE" :> NS_PUBSUB_NODE_CONFIG @@ "pubsub#persist_items" :> "1"
          @@ "x-unknown" :> "v",
      "FORM_TYPE" :> NS_PUBSUB_NODE_CONFIG
          @@ "pubsub#persist_items" :> "maybe",
      "FORM_TYPE" :> NS_PUBSUB_SUBSCRIBE_OPTIONS @@ "pubsub#deliver" :> "1" }

FormElements ==
    {FormElement(t, f) : t \in {"submit", "cancel", "form", "result"},
                         f \in FormFieldSets}

\* two Data Forms in one verb element: a submitted node-config form and a
\* submitted subscribe-options form, in either order
FormPairs ==
    LET config == {FormElement("submit", f) :
                    f \in {"FORM_TYPE" :> NS_PUBSUB_NODE_CONFIG
                                @@ "pubsub#node_type" :> "foo",
                           "FORM_TYPE" :> NS_PUBSUB_NODE_CONFIG
                                @@ "pubsub#persist_items" :> "1"
                                @@ "x-unknown" :> "v"}}
        options == FormElement("submit",
                        "FORM_TYPE" :> NS_PUBSUB_SUBSCRIBE_OPTIONS
                            @@ "pubsub#deliver" :> "1")
    IN  {<<c, options>> : c \in config} \cup {<<options, c>> : c \in config}

NodeAttrs == {EmptyDict} \cup {Put(EmptyDict, "node", n) : n \in {"", "news"}}

JidAttrs ==
    {EmptyDict} \cup {Put(EmptyDict, "jid", j) :
                        j \in {SubscriberJidString, InvalidJidString}}

MaxItemsAttrs ==
    {EmptyDict} \cup {Put(EmptyDict, "max_items", m) : m \in Strings(MaxLen)}

ChildNames ==
    {"publish", "subscribe", "unsubscribe", "options", "subscriptions",
     "affiliations", "create", "default", "configure", "items", "retract",
     "purge", "delete", "bogus"}

PubSubNamespaces == {NS_PUBSUB, NS_PUBSUB_OWNER}

\* The attributes and children an inbound child of <pubsub/> may carry:
\* `node` on every element, and what the parsers of the verbs of that
\* element name read: `jid` (subscribe, unsubscribe, options), `max_items`
\* (items), <item/> children (publish, items, retract) and Data Forms
\* (default, configure, options).
AttrsFor(name) ==
    {n @@ j @@ m :
        n \in NodeAttrs,
        j \in IF name \in {"subscribe", "unsubscribe", "options"}
              THEN JidAttrs ELSE {EmptyDict},
        m \in IF name = "items" THEN MaxItemsAttrs ELSE {EmptyDict}}

ChildrenFor(name) ==
    IF name \in {"publish", "items", "retract"}
    THEN SeqsUpTo(ItemElements, MaxItems)
    ELSE IF name \in {"default", "configure", "options"}
         THEN {<<>>} \cup {<<f>> : f \in FormElements} \cup FormPairs
         ELSE {<<>>}

VerbElements ==
    UNION {{Element(uri, name, a, c) :
                uri \in PubSubNamespaces, a \in AttrsFor(name),
                c \in ChildrenFor(name)} : name \in ChildNames}

\* a child of <pubsub/> that no verb table entry matches
JunkElement == Element(NS_PUBSUB, "bogus", EmptyDict, <<>>)

PubSubIQ(t, ns, kids) ==
    [type |-> t,
     attrs |-> [from |-> UserJidString, to |-> ServiceJidString],
     pubsub |-> [uri |-> ns, children |-> kids]]

\* verb elements that stand together in one <pubsub/>
PairElements ==
    LET jid == Put(EmptyDict, "jid", SubscriberJidString)
        node(n) == Put(EmptyDict, "node", n)
    IN  {Element(NS_PUBSUB, "subscribe", node("news") @@ jid, <<>>),
         Element(NS_PUBSUB, "unsubscribe", jid, <<>>),
         Element(NS_PUBSUB, "publish", node("blog"),
                 <<Item(Put(EmptyDict, "id", "1"))>>),
         Element(NS_PUBSUB, "items", node("news"), <<>>),
         Element(NS_PUBSUB_OWNER, "delete", EmptyDict, <<>>)}

\* two different verb elements, alone or after a child no table entry
\* matches
ElementPairs ==
    LET pairs == {p \in PairElements \X PairElements : p[1] # p[2]}
    IN  pairs \cup {<<JunkElement>> \o p : p \in pairs}

\* the pubsub IQs that match PUBSUB_REQUEST: type get or set, a <pubsub/>
\* child in the pubsub or pubsub-owner namespace; <pubsub/> holds nothing,
\* a child no table entry matches, a verb element, both, or several verb
\* elements
InboundIQs ==
    {PubSubIQ(t, ns, kids) :
        t \in {"get", "set"}, ns \in PubSubNamespaces,
        kids \in {<<>>, <<JunkElement>>}}
    \cup {PubSubIQ(t, v.uri, <<v>>) :
        t \in {"get", "set"}, v \in VerbElements}
    \cup {PubSubIQ(t, v.uri, <<JunkElement, v>>) :
        t \in {"get", "set"}, v \in VerbElements}
    \cup {PubSubIQ(t, NS_PUBSUB, kids) :
        t \in {"get", "set"}, kids \in ElementPairs}

\* the values a client sets the attributes of a request to, per parameter
\* (EmptyDict: the attribute is left None)
FieldChoices(parameter) ==
    {EmptyDict} \cup
    CASE parameter \in {"node", "nodeOrEmpty", "nodeOrNone"} ->
            {Put(EmptyDict, "nodeIdentifier", n) : n \in {""} \cup NodeIds}
      [] parameter = "items" ->
            {Put(EmptyDict, "items", i) :
                i \in SeqsUpTo(ItemElements, MaxItems)}
      [] parameter = "jid" ->
            {Put(EmptyDict, "subscriber", j) : j \in {SubscriberJID, UserJID}}
      [] parameter = "maxItems" ->
            {Put(EmptyDict, "maxItems", n) : n \in {0, 1, 10}}
      [] parameter = "itemIdentifiers" ->
            {Put(EmptyDict, "itemIdentifiers", i) :
                i \in SeqsUpTo(ItemIds, MaxItems)}
      [] parameter = "default" ->
            {Put(EmptyDict, "nodeType", t) : t \in {"leaf", "collection"}}
      [] parameter \in {"configure", "options"} ->
            {Put(EmptyDict, "options", o) :
                o \in {EmptyDict, Put(EmptyDict, "pubsub#deliver", "1")}}

RECURSIVE FieldSets(_)
FieldSets(ps) ==
    IF ps = <<>> THEN {EmptyDict}
    ELSE {f @@ g : f \in FieldChoices(Head(ps)), g \in FieldSets(Tail(ps))}

\* the requests a client calls send() on: any verb of the table with any
\* setting of its fields, a request without a verb and one with a verb
\* that is not in the table
ClientRequests ==
    {EmptyDict, Put(EmptyDict, "verb", "bogus")}
    \cup UNION {{f @@ s @@ [verb |-> v, recipient |-> ServiceJID] :
                    f \in FieldSets(Parameters[v]),
                    s \in {EmptyDict, Put(EmptyDict, "sender", UserJID)}} :
                v \in Verbs}

\* a field of a request as the data model wants it
ValidField(parameter, r) ==
    CASE parameter = "node" -> TruthyStr(r, "nodeIdentifier")
      [] parameter = "nodeOrEmpty" -> Has(r, "nodeIdentifier")
      [] parameter = "nodeOrNone" ->
            Has(r, "nodeIdentifier") => r["nodeIdentifier"] # ""
      [] parameter = "items" -> Has(r, "items")
      [] parameter = "jid" -> Has(r, "subscriber")
      [] parameter = "maxItems" -> Has(r, "maxItems") => r["maxItems"] > 0
      [] parameter = "itemIdentifiers" -> Has(r, "itemIdentifiers")
      [] parameter = "default" -> Has(r, "nodeType")
      [] parameter \in {"configure", "options"} -> Has(r, "options")

ValidRequest(r) ==
    /\ Has(r, "verb") /\ r["verb"] \in Verbs
    /\ \A i \in 1..Len(Parameters[r["verb"]]) :
            ValidField(Parameters[r["verb"]][i], r)

\* what an overriding backend does when called
BackendErrors ==
    {StanzaError("item-not-found", "", NoAppCondition),
     PubSubError("not-authorized", "presence-subscription-required", ""),
     [exc |-> "RuntimeError"]}

Behaviours ==
    {[kind |-> "defer"]} \cup {[kind |-> "raise", exc |-> e] : e \in BackendErrors}

\* what the deferred of an overriding backend fires with, per verb
BackendValues(verb) ==
    CASE verb = "subscribe" ->
            {Subscription(a, SubscriberJID, st) :
                a \in {EmptyDict, Put(EmptyDict, "nodeIdentifier", "news")},
                st \in {"subscribed", "pending", "unconfigured", "none"}}
      [] verb = "subscriptions" ->
            SeqsUpTo({Subscription(Put(EmptyDict, "nodeIdentifier", "news"),
                                   SubscriberJID, "subscribed")}, MaxItems)
      [] verb = "affiliations" -> SeqsUpTo({<<"news", "owner">>}, MaxItems)
      [] verb = "create" -> {"news", "auto-42"}
      [] verb \in {"default", "configureGet"} ->
            {EmptyDict,
             "pubsub#persist_items" :> "1" @@ "x-unknown" :> "v"}
      [] verb = "items" ->
            SeqsUpTo({Item(Put(EmptyDict, "id", i)) : i \in ItemIds},
                     MaxItems)
      [] OTHER -> {"None"}

\* the nodes events are about
EventNodes == {"news", "blog"}

\* the subscriptions argument of a notification: None, no subscription,
\* subscriptions to the node itself, to another node and to the root node
NotificationSubscriptions ==
    LET sub(a) == Subscription(a, SubscriberJID, "subscribed")
        news == sub(Put(EmptyDict, "nodeIdentifier", "news"))
        blog == sub(Put(EmptyDict, "nodeIdentifier", "blog"))
        root == sub(EmptyDict)
    IN  {<<>>, <<<<>>>>, <<<<news>>>>, <<<<news, blog>>>>, <<<<root, blog>>>>}

\* the items argument of a notification
NotificationItems ==
    LET one == Item(Put(EmptyDict, "id", "1"))
        two == Item(Put(EmptyDict, "id", "2"))
        retract == Element(NS_PUBSUB, "retract", Put(EmptyDict, "id", "3"),
                           <<>>)
    IN  {<<>>, <<retract>>, <<two, one>>}

\* the (subscriber, subscriptions, items) triples given to notifyPublish
Notifications ==
    [subscriber : {SubscriberJID, UserJID},
     subscriptions : NotificationSubscriptions,
     items : NotificationItems]

\* the redirectURI argument of notifyDelete: None or a URI
RedirectURIs == {<<>>, <<"xmpp:pubsub.example?;node=blog">>}

\* the from and to of an inbound event message: both, one or none
EventAttrs ==
    {[from |-> ServiceJidString, to |-> SubscriberJidString],
     [from |-> ServiceJidString], [to |-> SubscriberJidString], EmptyDict}

\* the children of <event/> in the pubsub-event namespace: items, delete
\* and purge with or without a node, items holding item and retract
\* elements and another element, delete holding a redirect with or without
\* a uri, and an action the client has no handler for
EventActions ==
    LET ev(name, attrs, kids) == Element(NS_PUBSUB_EVENT, name, attrs, kids)
        item == ev("item", Put(EmptyDict, "id", "1"), <<>>)
        retract == ev("retract", Put(EmptyDict, "id", "2"), <<>>)
        other == ev("note", EmptyDict, <<>>)
        redirect(a) == ev("redirect", a, <<>>)
        kids(name) ==
            CASE name = "items" ->
                    {<<>>, <<retract, item>>, <<item, other, retract>>}
              [] name = "delete" ->
                    {<<>>, <<redirect(Put(EmptyDict, "uri", "xmpp:blog"))>>,
                     <<redirect(EmptyDict)>>}
              [] OTHER -> {<<>>}
    IN  UNION {{ev(name, a, k) :
                    a \in {EmptyDict, Put(EmptyDict, "node", "news")},
                    k \in kids(name)} :
                name \in {"items", "delete", "purge", "configuration"}}

\* an <items/> that is not in the pubsub-event namespace
ForeignAction ==
    Element("urn:example:other", "items", Put(EmptyDict, "node", "news"),
            <<>>)

\* the event messages the observer of connectionInitialized matches: a
\* <message/> with an <event/> of the pubsub-event namespace that holds
\* nothing, one action, an element of another namespace, that element and
\* an action, or two actions; with or without a SHIM header
InboundEvents ==
    LET purge == Element(NS_PUBSUB_EVENT, "purge",
                         Put(EmptyDict, "node", "news"), <<>>)
        kids == {<<>>, <<ForeignAction>>}
                    \cup {<<a>> : a \in EventActions}
                    \cup {<<a, ForeignAction>> : a \in {purge}}
                    \cup {<<a, purge>> : a \in EventActions}
        shim == Headers(<<<<"Collection", <<"blog">>>>>>)
    IN  {Element("", "message", a,
                 <<Element(NS_PUBSUB_EVENT, "event", EmptyDict, k)>> \o h) :
            a \in EventAttrs, k \in kids, h \in {<<>>, <<shim>>}}

\* the attributes of the running service when discovery asks: those of
\* __init__, and for a service implementation also an assigned hideNodes,
\* another identity and declared features
ServiceConfigs(service) ==
    IF service = "base" THEN {DefaultConfig}
    ELSE {DefaultConfig,
          Put(DefaultConfig, "hideNodes", TRUE),
          Put(DefaultConfig, "hideNodes", FALSE),
          [discoIdentity |-> [category |-> "pubsub", type |-> "service",
                              name |-> "News Service"],
           pubSubFeatures |-> <<"publish", "subscribe">>,
           hideNodes |-> FALSE]}

\* the node identifier of a disco request: None, empty or a node
DiscoNodeIdentifiers == {<<>>, <<"">>, <<"news">>}

\* what the deferred of getNodeInfo fires with: None, an empty dict, the
\* info of a node without and with meta-data, and a dict without meta-data
NodeInfos ==
    {<<>>, <<EmptyDict>>,
     <<"type" :> "leaf" @@ "meta-data" :> <<>>>>,
     <<"type" :> "collection"
        @@ "meta-data" :> <<[var |-> "pubsub#title", value |-> "News"]>>>>,
     <<Put(EmptyDict, "type", "leaf")>>}

\* what the deferred of getNodes fires with
NodeLists == {<<>>, <<"news">>, <<"news", "blog">>, <<"blog", "news">>}

\* the stanzas that arrive one after another on the stream: items, create
\* and configuration requests for two nodes, a request to set a node's
\* configuration, and an items request without node (refused at once)
StreamIQs ==
    LET node(n) == Put(EmptyDict, "node", n)
        form == FormElement("submit",
                    "FORM_TYPE" :> NS_PUBSUB_NODE_CONFIG
                        @@ "pubsub#persist_items" :> "1")
    IN  {PubSubIQ("get", NS_PUBSUB,
                  <<Element(NS_PUBSUB, "items", node(n), <<>>)>>) :
            n \in NodeIds}
        \cup {PubSubIQ("set", NS_PUBSUB,
                       <<Element(NS_PUBSUB, "create", node(n), <<>>)>>) :
                n \in NodeIds}
        \cup {PubSubIQ("get", NS_PUBSUB_OWNER,
                       <<Element(NS_PUBSUB_OWNER, "configure", node(n),
                                 <<>>)>>) :
                n \in NodeIds}
        \cup {PubSubIQ("set", NS_PUBSUB_OWNER,
                       <<Element(NS_PUBSUB_OWNER, "configure", node("news"),
                                 <<form>>)>>),
              PubSubIQ("get", NS_PUBSUB,
                       <<Element(NS_PUBSUB, "items", EmptyDict, <<>>)>>)}

\* what the deferred of a backend operation fires with when several
\* requests are outstanding, per verb
StreamValues(verb) ==
    CASE verb = "items" ->
            {<<Item(Put(EmptyDict, "id", i))>> : i \in ItemIds}
      [] verb = "create" -> NodeIds
      [] verb = "configureGet" -> {Put(EmptyDict, "pubsub#persist_items", "1")}
      [] OTHER -> {"None"}

\* what it fails with
StreamErrors == {StanzaError("item-not-found", "", NoAppCondition)}

-----------------------------------------------------------------------------
(* The state machine: one exchange, either a request of the local client   *)
(* rendered by PubSubRequest.send and delivered to the service, or an      *)
(* inbound stanza of another entity.                                       *)

NotSent == [exc |-> NoExc, sent |-> <<>>, rendered |-> <<>>]

\* the stream before any request arrived
NoRequests ==
    [entries |-> <<>>, backendLog |-> <<>>, completed |-> <<>>,
     answered |-> <<>>]

Init ==
    /\ backend \in {"base", "custom"}
    /\ clientReq = <<>>
    /\ sendResult = NotSent
    /\ stanza = <<>>
    /\ request = EmptyDict
    /\ handler = "none"
    /\ calls = <<>>
    /\ backendDid = NotCalled
    /\ deferred = [state |-> "none"]
    /\ result = [kind |-> "none"]
    /\ clientCall = "none"
    /\ clientResult = [kind |-> "none"]
    /\ notified = <<>>
    /\ outbox = <<>>
    /\ delivered = <<>>
    /\ disco = [op |-> "none"]
    /\ stream = NoRequests

\* PubSubRequest.send on a request built by the client
ClientSend ==
    /\ clientReq = <<>> /\ stanza = <<>> /\ notified = <<>>
    /\ delivered = <<>> /\ disco.op = "none"
    /\ stream = NoRequests
    /\ \E r \in ClientRequests :
        /\ clientReq' = <<r>>
        /\ sendResult' = Send(r)
    /\ clientCall' = "send"
    /\ UNCHANGED <<backend, stanza, request, handler, calls, backendDid,
                   deferred, result, clientResult,
                   notifyVars, restVars>>

\* the state after _onPubSubRequest returned or raised with outcome o
Handled(iq, o) ==
    /\ stanza' = <<iq>>
    /\ request' = o.request
    /\ handler' = IF o.handled THEN o.request["verb"] ELSE "none"
    /\ calls' = o.out.calls
    /\ backendDid' = o.out.did
    /\ deferred' =
        IF o.out.ret = "deferred"
        THEN [state |-> "pending", callback |-> o.out.callback]
        ELSE IF o.out.ret = "failed" THEN [state |-> "failed"]
             ELSE [state |-> "none"]
    /\ result' =
        CASE o.out.ret = "raised" -> [kind |-> "raised", exc |-> o.out.exc]
          [] o.out.ret = "failed" ->
                [kind |-> "failed", exc |-> o.out.failure]
          [] o.out.ret = "None" ->
                [kind |-> "response", payload |-> <<>>, composed |-> FALSE]
          [] o.out.ret = "deferred" -> [kind |-> "waiting"]

\* handleRequest -> _onPubSubRequest on the stanza iq, up to the point
\* where the handler has returned or raised
OnStanza(iq) ==
    \E beh \in IF backend = "base" THEN {[kind |-> "defer"]} ELSE Behaviours :
        Handled(iq, OnPubSubRequest(iq, beh))

\* the service receives the IQ the local client sent
HandleSent ==
    /\ stanza = <<>> /\ sendResult.sent # <<>>
    /\ OnStanza(sendResult.sent[1])
    /\ UNCHANGED <<backend, clientReq, sendResult, clientVars,
                   notifyVars, restVars>>

\* the service receives a pubsub IQ of another entity
HandleInbound ==
    /\ stanza = <<>> /\ clientReq = <<>> /\ notified = <<>>
    /\ delivered = <<>> /\ disco.op = "none"
    /\ stream = NoRequests
    /\ \E iq \in InboundIQs : OnStanza(iq)
    /\ UNCHANGED <<backend, clientReq, sendResult, clientVars,
                   notifyVars, restVars>>

\* Deferred.callback(value) on a deferred the handler returned: the
\* callbacks added with addCallback run, so toResponse composes the
\* response when the handler added it
Fired(r, callbackAdded, value) ==
    [kind |-> "response",
     payload |-> IF callbackAdded THEN ToResponse(r, value) ELSE <<>>,
     composed |-> callbackAdded]

\* variant: the failure is consumed and an empty result is returned
FailedThenAnswered(r, callbackAdded, e) ==
    [kind |-> "response", payload |-> <<>>, composed |-> callbackAdded]

\* Deferred.errback(e) on a deferred the handler returned: callbacks added
\* with addCallback are skipped, the failure passes through
Failed(r, callbackAdded, e) == [kind |-> "failed", exc |-> e]

\* the backend's deferred fires with a value
BackendFire ==
    /\ deferred.state = "pending"
    /\ \E value \in BackendValues(request["verb"]) :
        /\ deferred' = [deferred EXCEPT !.state = "fired"]
        /\ backendDid' = [kind |-> "fired", value |-> value]
        /\ result' = Fired(request, deferred.callback, value)
    /\ UNCHANGED <<backend, clientReq, sendResult, stanza, request, handler,
                   calls, clientVars,
                   notifyVars, restVars>>

\* the backend's deferred fails
BackendFail ==
    /\ deferred.state = "pending"
    /\ \E e \in BackendErrors :
        /\ deferred' = [deferred EXCEPT !.state = "failed"]
        /\ backendDid' = [kind |-> "failed", exc |-> e]
        /\ result' = Failed(request, deferred.callback, e)
    /\ UNCHANGED <<backend, clientReq, sendResult, stanza, request, handler,
                   calls, clientVars,
                   notifyVars, restVars>>

\* PubSubClient.createNode(service, nodeIdentifier, sender)
ClientCreateNode ==
    /\ clientReq = <<>> /\ stanza = <<>> /\ notified = <<>>
    /\ delivered = <<>> /\ disco.op = "none"
    /\ stream = NoRequests
    /\ \E n \in {EmptyDict} \cup
                {Put(EmptyDict, "nodeIdentifier", i) : i \in {""} \cup NodeIds},
          s \in {EmptyDict, Put(EmptyDict, "sender", UserJID)} :
        LET r == n @@ s @@ [verb |-> "create", recipient |-> ServiceJID]
        IN  /\ clientReq' = <<r>>
            /\ sendResult' = Send(r)
    /\ clientCall' = "createNode"
    /\ UNCHANGED <<backend, stanza, request, handler, calls, backendDid,
                   deferred, result, clientResult,
                   notifyVars, restVars>>

\* PubSubClient.subscribe(service, nodeIdentifier, subscriber, sender)
ClientSubscribe ==
    /\ clientReq = <<>> /\ stanza = <<>> /\ notified = <<>>
    /\ delivered = <<>> /\ disco.op = "none"
    /\ stream = NoRequests
    /\ \E i \in {""} \cup NodeIds,
          s \in {EmptyDict, Put(EmptyDict, "sender", UserJID)} :
        LET r == s @@ [verb |-> "subscribe", recipient |-> ServiceJID,
                       nodeIdentifier |-> i, subscriber |-> SubscriberJID]
        IN  /\ clientReq' = <<r>>
            /\ sendResult' = Send(r)
    /\ clientCall' = "subscribe"
    /\ UNCHANGED <<backend, stanza, request, handler, calls, backendDid,
                   deferred, result, clientResult,
                   notifyVars, restVars>>

\* the service answers the request of the local client and the deferred
\* of the client's call resolves
ClientReply ==
    /\ clientReq # <<>> /\ stanza # <<>> /\ stanza = sendResult.sent
    /\ result.kind \in {"response", "raised", "failed"}
    /\ clientResult.kind = "none"
    /\ clientResult' = ClientDeferred(clientCall, clientReq[1],
                                      HandleRequestReply(result))
    /\ UNCHANGED <<backend, clientReq, sendResult, stanza, request, handler,
                   calls, backendDid, deferred, result, clientCall,
                   notifyVars, restVars>>

\* the service implementation calls notifyPublish
DoNotifyPublish ==
    /\ backend = "custom"
    /\ clientReq = <<>> /\ stanza = <<>> /\ notified = <<>>
    /\ delivered = <<>> /\ disco.op = "none"
    /\ stream = NoRequests
    /\ \E nodeIdentifier \in EventNodes,
          notifications \in SeqsUpTo(Notifications, MaxNotifications) :
        /\ notified' = <<[op |-> "notifyPublish", service |-> ServiceJID,
                          nodeIdentifier |-> nodeIdentifier,
                          notifications |-> notifications]>>
        /\ outbox' = NotifyPublish(ServiceJID, nodeIdentifier, notifications,
                                   outbox)
    /\ UNCHANGED <<backend, clientReq, sendResult, stanza, request, handler,
                   calls, backendDid, deferred, result, clientVars,
                   restVars>>

\* the service implementation calls notifyDelete
DoNotifyDelete ==
    /\ backend = "custom"
    /\ clientReq = <<>> /\ stanza = <<>> /\ notified = <<>>
    /\ delivered = <<>> /\ disco.op = "none"
    /\ stream = NoRequests
    /\ \E nodeIdentifier \in EventNodes,
          subscribers \in SeqsUpTo({SubscriberJID, UserJID}, MaxNotifications),
          redirectURI \in RedirectURIs :
        /\ notified' = <<[op |-> "notifyDelete", service |-> ServiceJID,
                          nodeIdentifier |-> nodeIdentifier,
                          subscribers |-> subscribers,
                          redirectURI |-> redirectURI]>>
        /\ outbox' = NotifyDelete(ServiceJID, nodeIdentifier, subscribers,
                                  redirectURI, outbox)
    /\ UNCHANGED <<backend, clientReq, sendResult, stanza, request, handler,
                   calls, backendDid, deferred, result, clientVars,
                   restVars>>

\* the stream hands an event message of another entity to _onEvent
DeliverEvent ==
    /\ clientReq = <<>> /\ stanza = <<>> /\ notified = <<>>
    /\ delivered = <<>> /\ disco.op = "none"
    /\ stream = NoRequests
    /\ \E message \in InboundEvents : delivered' = <<OnEvent(message)>>
    /\ UNCHANGED <<backend, clientReq, sendResult, stanza, request, handler,
                   calls, backendDid, deferred, result, clientVars,
                   notifyVars, disco, stream>>

\* the next notification the service sent reaches the subscriber's client
\* and the stream hands it to _onEvent
DeliverNotification ==
    /\ notified # <<>>
    /\ Len(delivered) < Len(outbox)
    /\ delivered' = Append(delivered, OnEvent(outbox[Len(delivered) + 1]))
    /\ UNCHANGED <<backend, clientReq, sendResult, stanza, request, handler,
                   calls, backendDid, deferred, result, clientVars,
                   notifyVars, disco, stream>>

\* a disco call that was made with this configuration and node identifier
DiscoCall(op, config, nodeIdentifier, call) ==
    [op |-> op, config |-> config, nodeIdentifier |-> nodeIdentifier,
     target |-> ServiceJID, info |-> call.info, calls |-> call.calls,
     state |-> call.state, exc |-> call.exc, lookup |-> [kind |-> "none"],
     value |-> <<>>]

\* the disco handler asks getDiscoInfo
DoGetDiscoInfo ==
    /\ clientReq = <<>> /\ stanza = <<>> /\ notified = <<>>
    /\ delivered = <<>> /\ disco.op = "none"
    /\ stream = NoRequests
    /\ \E config \in ServiceConfigs(backend),
          nodeIdentifier \in DiscoNodeIdentifiers :
        \E order \in KeyOrders(config.discoIdentity) :
            disco' = DiscoCall("getDiscoInfo", config, nodeIdentifier,
                        GetDiscoInfo(backend, config, nodeIdentifier, order))
    /\ UNCHANGED <<backend, clientReq, sendResult, stanza, request, handler,
                   calls, backendDid, deferred, result, clientVars,
                   notifyVars, delivered, stream>>

\* the deferred of getNodeInfo fires and the callbacks of getDiscoInfo run
NodeInfoFire ==
    /\ disco.op = "getDiscoInfo" /\ disco.state = "pending"
    /\ \E nodeInfo \in NodeInfos :
        LET lookup == [kind |-> "fired", value |-> nodeInfo]
        IN  disco' = [disco EXCEPT
                        !.lookup = lookup,
                        !.state = ToInfo(disco.info, lookup).state,
                        !.value = ToInfo(disco.info, lookup).value]
    /\ UNCHANGED <<backend, clientReq, sendResult, stanza, request, handler,
                   calls, backendDid, deferred, result, clientVars,
                   notifyVars, delivered, stream>>

\* the deferred of getNodeInfo fails and the callbacks of getDiscoInfo run
NodeInfoFail ==
    /\ disco.op = "getDiscoInfo" /\ disco.state = "pending"
    /\ \E e \in BackendErrors :
        LET lookup == [kind |-> "failed", exc |-> e]
        IN  disco' = [disco EXCEPT
                        !.lookup = lookup,
                        !.state = ToInfo(disco.info, lookup).state,
                        !.value = ToInfo(disco.info, lookup).value]
    /\ UNCHANGED <<backend, clientReq, sendResult, stanza, request, handler,
                   calls, backendDid, deferred, result, clientVars,
                   notifyVars, delivered, stream>>

\* the disco handler asks getDiscoItems
DoGetDiscoItems ==
    /\ clientReq = <<>> /\ stanza = <<>> /\ notified = <<>>
    /\ delivered = <<>> /\ disco.op = "none"
    /\ stream = NoRequests
    /\ \E config \in ServiceConfigs(backend),
          nodeIdentifier \in DiscoNodeIdentifiers :
        disco' = DiscoCall("getDiscoItems", config, nodeIdentifier,
                           GetDiscoItems(backend, config, nodeIdentifier))
    /\ UNCHANGED <<backend, clientReq, sendResult, stanza, request, handler,
                   calls, backendDid, deferred, result, clientVars,
                   notifyVars, delivered, stream>>

\* the deferred of getNodes fires and the callback of getDiscoItems runs
NodesFire ==
    /\ disco.op = "getDiscoItems" /\ disco.state = "pending"
    /\ \E nodes \in NodeLists :
        disco' = [disco EXCEPT
                    !.lookup = [kind |-> "fired", value |-> nodes],
                    !.state = "fired",
                    !.value = ToItems(disco.target, nodes)]
    /\ UNCHANGED <<backend, clientReq, sendResult, stanza, request, handler,
                   calls, backendDid, deferred, result, clientVars,
                   notifyVars, delivered, stream>>

\* the deferred of getNodes fails: the callback is skipped
NodesFail ==
    /\ disco.op = "getDiscoItems" /\ disco.state = "pending"
    /\ \E e \in BackendErrors :
        disco' = [disco EXCEPT
                    !.lookup = [kind |-> "failed", exc |-> e],
                    !.state = "failed",
                    !.exc = e]
    /\ UNCHANGED <<backend, clientReq, sendResult, stanza, request, handler,
                   calls, backendDid, deferred, result, clientVars,
                   notifyVars, delivered, stream>>

-----------------------------------------------------------------------------
(* PubSubService: several requests on one stream.  The stream's state is   *)
(*   entries     the requests in the order their stanzas arrived, each     *)
(*               with the PubSubRequest built for it, the handler that     *)
(*               ran, whether toResponse was added, the state of its       *)
(*               deferred, what the deferred resolved to and the result;   *)
(*   backendLog  the operations invoked on the service implementation, in  *)
(*               order, each with the position of the request it was       *)
(*               invoked for;                                              *)
(*   completed   the positions of the requests in the order their          *)
(*               deferreds resolved;                                       *)
(*   answered    the positions of the requests in the order their results  *)
(*               were produced.                                            *)

\* the result of a handler that did not return a pending deferred
ImmediateResult(out) ==
    CASE out.ret = "raised" -> [kind |-> "raised", exc |-> out.exc]
      [] out.ret = "failed" -> [kind |-> "failed", exc |-> out.failure]
      [] out.ret = "None" ->
            [kind |-> "response", payload |-> <<>>, composed |-> FALSE]
      [] out.ret = "deferred" -> [kind |-> "waiting"]

\* the operations of a request, as the log keeps them
Logged(i, ops) == [j \in 1..Len(ops) |-> [request |-> i, op |-> ops[j].op]]

\* _onPubSubRequest ran for the stanza iq with outcome o: fromElement built
\* a new PubSubRequest, the handler called the backend and returned; a
\* handler that returned no pending deferred has its result at once
Received(s, iq, o) ==
    LET i == Len(s.entries) + 1
        entry == [iq |-> iq, request |-> o.request,
                  handler |-> IF o.handled THEN o.request["verb"]
                              ELSE "none",
                  callback |-> o.out.ret = "deferred" /\ o.out.callback,
                  state |-> IF o.out.ret = "deferred" THEN "pending"
                            ELSE "done",
                  outcome |-> [kind |-> "none"],
                  result |-> ImmediateResult(o.out)]
    IN  [entries |-> Append(s.entries, entry),
         backendLog |-> s.backendLog \o Logged(i, o.out.calls),
         completed |-> s.completed,
         answered |-> IF o.out.ret = "deferred" THEN s.answered
                      ELSE Append(s.answered, i)]

\* variant: the response is composed from the request that arrived last
ComposeFromLatest(entries, i, outcome) ==
    IF outcome.kind = "fired"
    THEN Fired(entries[Len(entries)].request, entries[i].callback,
               outcome.value)
    ELSE Failed(entries[Len(entries)].request, entries[i].callback,
                outcome.exc)

\* the callbacks on the deferred of the i-th request: toResponse is a
\* closure of the handler's call and reads the `request` of that call
Compose(entries, i, outcome) ==
    IF outcome.kind = "fired"
    THEN Fired(entries[i].request, entries[i].callback, outcome.value)
    ELSE Failed(entries[i].request, entries[i].callback, outcome.exc)

\* the operations toResponse invokes: _formFromConfiguration asks
\* getConfigurationOptions for the option schema
ComposerCalls(entry, outcome) ==
    IF outcome.kind = "fired" /\ entry.callback
            /\ entry.handler \in {"default", "configureGet"}
    THEN <<[op |-> "getConfigurationOptions"]>>
    ELSE <<>>

\* variant: the result of a completed request is put before those produced
\* earlier
CompletedAnsweredFirst(s, i, outcome) ==
    [entries |-> [s.entries EXCEPT
                    ![i].state = outcome.kind,
                    ![i].outcome = outcome,
                    ![i].result = Compose(s.entries, i, outcome)],
     backendLog |-> s.backendLog
                    \o Logged(i, ComposerCalls(s.entries[i], outcome)),
     completed |-> Append(s.completed, i),
     answered |-> <<i>> \o s.answered]

\* the deferred of the i-th request resolved: its callbacks run and its
\* result is produced
Completed(s, i, outcome) ==
    [entries |-> [s.entries EXCEPT
                    ![i].state = outcome.kind,
                    ![i].outcome = outcome,
                    ![i].result = Compose(s.entries, i, outcome)],
     backendLog |-> s.backendLog
                    \o Logged(i, ComposerCalls(s.entries[i], outcome)),
     completed |-> Append(s.completed, i),
     answered |-> Append(s.answered, i)]

\* the next stanza of the stream arrives and _onPubSubRequest runs for it,
\* whether or not earlier requests still wait for their deferreds
StreamReceive ==
    /\ clientReq = <<>> /\ stanza = <<>> /\ notified = <<>>
    /\ delivered = <<>> /\ disco.op = "none"
    /\ Len(stream.entries) < MaxOutstanding
    /\ \E iq \in StreamIQs :
        stream' = Received(stream, iq,
                           OnPubSubRequest(iq, [kind |-> "defer"]))
    /\ UNCHANGED <<backend, clientReq, sendResult, stanza, request, handler,
                   calls, backendDid, deferred, result, clientVars,
                   notifyVars, delivered, disco>>

\* the deferred of one of the waiting requests fires
StreamFire ==
    /\ \E i \in 1..Len(stream.entries) :
        /\ stream.entries[i].state = "pending"
        /\ \E value \in StreamValues(stream.entries[i].handler) :
            stream' = Completed(stream, i,
                                [kind |-> "fired", value |-> value])
    /\ UNCHANGED <<backend, clientReq, sendResult, stanza, request, handler,
                   calls, backendDid, deferred, result, clientVars,
                   notifyVars, delivered, disco>>

\* the deferred of one of the waiting requests fails
StreamFail ==
    /\ \E i \in 1..Len(stream.entries) :
        /\ stream.entries[i].state = "pending"
        /\ \E e \in StreamErrors :
            stream' = Completed(stream, i, [kind |-> "failed", exc |-> e])
    /\ UNCHANGED <<backend, clientReq, sendResult, stanza, request, handler,
                   calls, backendDid, deferred, result, clientVars,
                   notifyVars, delivered, disco>>

Next ==
    \/ ClientSend \/ HandleSent \/ HandleInbound \/ BackendFire \/ BackendFail
    \/ ClientCreateNode \/ ClientSubscribe \/ ClientReply
    \/ DoNotifyPublish \/ DoNotifyDelete
    \/ DeliverEvent \/ DeliverNotification
    \/ DoGetDiscoInfo \/ NodeInfoFire \/ NodeInfoFail
    \/ DoGetDiscoItems \/ NodesFire \/ NodesFail
    \/ StreamReceive \/ StreamFire \/ StreamFail

Spec == Init /\ [][Next]_vars

-----------------------------------------------------------------------------
(* Vocabulary of the properties *)

\* the fields of a request that the codec parses and renders
CodecFields(r) ==
    [k \in DOMAIN r \cap {"verb", "nodeIdentifier", "items",
                          "itemIdentifiers", "maxItems", "subscriber",
                          "options", "nodeType"} |-> r[k]]

\* the positions of the children of <pubsub/> that the verb table knows
TableHits(iq) ==
    {i \in 1..Len(iq.pubsub.children) :
        <<iq.type, iq.pubsub.children[i].uri, iq.pubsub.children[i].name>>
            \in DOMAIN RequestVerbMap}

\* the verb element of a stanza that has one: the first child the table
\* knows, and the verb it stands for
VerbElementOf(iq) ==
    iq.pubsub.children[CHOOSE i \in TableHits(iq) :
                            \A j \in TableHits(iq) : i <= j]

VerbOf(iq) ==
    RequestVerbMap[<<iq.type, VerbElementOf(iq).uri, VerbElementOf(iq).name>>]

\* the service has handled a stanza that asks for one of the verbs
Asked(verbs) ==
    /\ stanza # <<>>
    /\ TableHits(stanza[1]) # {}
    /\ VerbOf(stanza[1]) \in verbs

\* the request was refused with this exception before any handler ran
RefusedWith(e) ==
    /\ result = [kind |-> "raised", exc |-> e]
    /\ handler = "none"
    /\ calls = <<>>
    /\ deferred.state = "none"

-----------------------------------------------------------------------------
(* Properties *)

\* C1 (as claimed): every valid request of every verb is sent, and parsing
\* the IQ that send() produced gives back the request's verb and fields.
C1_VerbRoundTrip ==
    \A i \in 1..Len(clientReq) :
        ValidRequest(clientReq[i]) =>
            /\ sendResult.exc = NoExc
            /\ Len(sendResult.sent) = 1
            /\ stanza = sendResult.sent =>
                    /\ handler = clientReq[i]["verb"]
                    /\ CodecFields(request) = CodecFields(clientReq[i])

\* C2 (as claimed): for a valid request of any verb of the table, send()
\* dispatches exactly one IQ whose type, <pubsub/> namespace and verb child
\* are the verb's triple, after running the renderer of every parameter of
\* the verb in the listed order.
C2_SendRendersEveryVerb ==
    \A i \in 1..Len(clientReq) :
        ValidRequest(clientReq[i]) =>
            /\ sendResult.exc = NoExc
            /\ sendResult.rendered = Parameters[clientReq[i]["verb"]]
            /\ Len(sendResult.sent) = 1
            /\ \E key \in DOMAIN RequestVerbMap :
                /\ RequestVerbMap[key] = clientReq[i]["verb"]
                /\ sendResult.sent[1].type = key[1]
                /\ sendResult.sent[1].pubsub.uri = key[2]
                /\ Len(sendResult.sent[1].pubsub.children) = 1
                /\ sendResult.sent[1].pubsub.children[1].uri = key[2]
                /\ sendResult.sent[1].pubsub.children[1].name = key[3]

\* C3: a stanza whose <pubsub/> has no child that the verb table knows
\* (no child at all included) is refused with NotImplementedError; no
\* verb is bound, no handler runs, no backend operation is called.
C3_UnknownVerbRejected ==
    (stanza # <<>> /\ TableHits(stanza[1]) = {}) =>
        /\ RefusedWith(NotImplementedError)
        /\ ~Has(request, "verb")

C3_Witness ==
    /\ stanza # <<>>
    /\ stanza[1].pubsub.children # <<>>
    /\ TableHits(stanza[1]) = {}
    /\ result.kind = "raised"

\* C4: a publish, items, retract, purge or delete request whose verb
\* element has no node attribute is refused with
\* BadRequest('nodeid-required') and no backend operation is called.
C4_NodeRequired ==
    (/\ Asked({"publish", "items", "retract", "purge", "delete"})
     /\ ~Has(VerbElementOf(stanza[1]).attrs, "node")) =>
        RefusedWith(BadRequest("nodeid-required", ""))

C4_Witness ==
    /\ Asked({"items"})
    /\ ~Has(VerbElementOf(stanza[1]).attrs, "node")
    /\ Has(VerbElementOf(stanza[1]).attrs, "max_items")
    /\ result.kind = "raised"

\* C5: a subscribe, unsubscribe, optionsGet or optionsSet request whose
\* verb element has no jid attribute is refused with
\* BadRequest('jid-required'), whatever else the element carries.
C5_JidRequired ==
    (/\ Asked({"subscribe", "unsubscribe", "optionsGet", "optionsSet"})
     /\ ~Has(VerbElementOf(stanza[1]).attrs, "jid")) =>
        RefusedWith(BadRequest("jid-required", ""))

C5_Witness ==
    /\ Asked({"optionsSet"})
    /\ ~Has(VerbElementOf(stanza[1]).attrs, "jid")
    /\ Has(VerbElementOf(stanza[1]).attrs, "node")
    /\ VerbElementOf(stanza[1]).children = <<>>
    /\ result.kind = "raised"

\* C6 (as claimed): a jid attribute that is present but is no valid JID
\* makes parseElement fail with BadRequest('jid-required').
C6_InvalidJidIsBadRequest ==
    (/\ Asked({"subscribe", "unsubscribe", "optionsGet", "optionsSet"})
     /\ Has(VerbElementOf(stanza[1]).attrs, "jid")
     /\ VerbElementOf(stanza[1]).attrs["jid"] = InvalidJidString) =>
        RefusedWith(BadRequest("jid-required", ""))

C6_Witness ==
    /\ Asked({"subscribe"})
    /\ Has(VerbElementOf(stanza[1]).attrs, "jid")
    /\ VerbElementOf(stanza[1]).attrs["jid"] = InvalidJidString
    /\ result.kind = "raised"

\* the value of a decimal digit
DigitOf(c) ==
    CASE c = "0" -> 0 [] c = "1" -> 1 [] c = "2" -> 2 [] c = "3" -> 3
      [] c = "4" -> 4 [] c = "5" -> 5 [] c = "6" -> 6 [] c = "7" -> 7
      [] c = "8" -> 8 [] c = "9" -> 9

IsDecimalDigit(c) ==
    c \in {"0", "1", "2", "3", "4", "5", "6", "7", "8", "9"}

RECURSIVE Pow10(_)
Pow10(k) == IF k = 0 THEN 1 ELSE 10 * Pow10(k - 1)

\* the number a string of decimal digits denotes: the sum of its digits
\* times their place values
RECURSIVE PlaceSum(_, _)
PlaceSum(s, i) ==
    IF i > Len(s) THEN 0
    ELSE DigitOf(s[i]) * Pow10(Len(s) - i) + PlaceSum(s, i + 1)

\* a decimal integer string: digits, or a minus sign and digits
IsDecimalString(s) ==
    /\ s # <<>>
    /\ \/ \A i \in 1..Len(s) : IsDecimalDigit(s[i])
       \/ /\ Len(s) > 1 /\ s[1] = "-"
          /\ \A i \in 2..Len(s) : IsDecimalDigit(s[i])

DecimalValue(s) ==
    IF s[1] = "-" THEN 0 - PlaceSum(Tail(s), 1) ELSE PlaceSum(s, 1)

\* the stanza is an items request with a node, so that max_items is parsed
ItemsRequestWithNode ==
    /\ Asked({"items"})
    /\ Has(VerbElementOf(stanza[1]).attrs, "node")

C8_MaxItemsPositive ==
    \A i \in 1..Len(calls) :
        (calls[i].op = "items" /\ Has(calls[i].args, "maxItems")) =>
            calls[i].args["maxItems"] > 0

\* the feature the documentation names for the refusal of each verb
DocumentedFeature ==
    [publish |-> "publish", subscribe |-> "subscribe",
     unsubscribe |-> "subscribe", optionsGet |-> "subscription-options",
     optionsSet |-> "subscription-options",
     subscriptions |-> "retrieve-subscriptions",
     affiliations |-> "retrieve-affiliations", create |-> "create-nodes",
     default |-> "retrieve-default", configureGet |-> "config-node",
     configureSet |-> "config-node", items |-> "retrieve-items",
     retract |-> "retract-items", purge |-> "purge-nodes",
     delete |-> "delete-nodes", affiliationsGet |-> "modify-affiliations",
     affiliationsSet |-> "modify-affiliations",
     subscriptionsGet |-> "manage-subscriptions",
     subscriptionsSet |-> "manage-subscriptions"]

\* the refusal of a feature: feature-not-implemented with <unsupported
\* feature=.../> of the pubsub-errors namespace
IsRefusal(e, feature) ==
    /\ e.exc = "StanzaError"
    /\ e.condition = "feature-not-implemented"
    /\ e.appCondition =
            [uri |-> NS_PUBSUB_ERRORS, name |-> "unsupported",
             attrs |-> [feature |-> feature]]

\* C9 (as claimed): with the base service every request that reaches its
\* handler is refused with the documented feature; none succeeds.
C9_BaseRefusesEveryVerb ==
    (backend = "base" /\ handler # "none") =>
        /\ result.kind = "raised"
        /\ IsRefusal(result.exc, DocumentedFeature[handler])

\* C9 (amended): with the base service every request that reaches its
\* handler is refused with the documented feature, except a default
\* request whose nodeType is neither leaf nor collection, which fails with
\* not-acceptable, and a configureSet request with empty options, which
\* is answered with no payload; neither of the two calls the backend.
C9_BaseRefusesOrPrechecks ==
    (backend = "base" /\ handler # "none") =>
        IF handler = "default" /\ request["nodeType"] \notin {"leaf", "collection"}
        THEN /\ result.kind = "failed"
             /\ result.exc.exc = "StanzaError"
             /\ result.exc.condition = "not-acceptable"
             /\ calls = <<>>
        ELSE IF handler = "configureSet" /\ request["options"] = EmptyDict
             THEN /\ result.kind = "response"
                  /\ result.payload = <<>>
                  /\ calls = <<>>
             ELSE /\ result.kind = "raised"
                  /\ IsRefusal(result.exc, DocumentedFeature[handler])

C9_Witness ==
    /\ backend = "base"
    /\ handler = "unsubscribe"
    /\ result.kind = "raised"
    /\ calls # <<>>

\* C10: when the backend operation of a request raises a stanza error e,
\* or its deferred fails with one, the outcome of the handler is a
\* failure carrying exactly e and no response is composed.
C10_BackendErrorPropagates ==
    (/\ backendDid.kind \in {"raised", "failed"}
     /\ IsStanzaError(backendDid.exc)) =>
        /\ result.kind = backendDid.kind
        /\ result.exc = backendDid.exc
        /\ ~Has(result, "payload")

C10_Witness ==
    /\ backend = "custom"
    /\ handler = "subscribe"
    /\ backendDid.kind = "failed"
    /\ IsStanzaError(backendDid.exc)
    /\ Has(backendDid.exc.appCondition, "name")

\* the children of an element with the given namespace and name, in order
ChildrenNamed(el, uri, name) ==
    SelectSeq(el.children, LAMBDA c : c.uri = uri /\ c.name = name)

\* the <header/> elements a message carries, in order
ShimHeaders(message) ==
    LET blocks == ChildrenNamed(message, NS_SHIM, "headers")
    IN  IF blocks = <<>> THEN <<>> ELSE blocks[1].children

\* the message carries nothing of the SHIM namespace
NoShim(message) ==
    \A j \in 1..Len(message.children) : message.children[j].uri # NS_SHIM

\* the positions in a subscription list (<<>> for None, <<list>> else) of
\* the subscriptions to another node than the given one
Differing(subscriptions, nodeIdentifier) ==
    IF subscriptions = <<>> THEN {}
    ELSE {j \in 1..Len(subscriptions[1]) :
            \/ ~Has(subscriptions[1][j], "nodeIdentifier")
            \/ subscriptions[1][j]["nodeIdentifier"] # nodeIdentifier}

\* the notification call that was made
Notified(op) == notified # <<>> /\ notified[1].op = op

\* the event payload of a message: the one child of its one <event/>
EventPayload(message) ==
    ChildrenNamed(message, NS_PUBSUB_EVENT, "event")[1].children[1]

\* a message from the service to the subscriber with one <event/> that
\* holds one element of the given name, for the given node
IsNotification(message, eventType, subscriber, nodeIdentifier) ==
    /\ message.name = "message"
    /\ message.attrs = [from |-> Full(ServiceJID), to |-> Full(subscriber)]
    /\ Len(ChildrenNamed(message, NS_PUBSUB_EVENT, "event")) = 1
    /\ Len(ChildrenNamed(message, NS_PUBSUB_EVENT, "event")[1].children) = 1
    /\ EventPayload(message).uri = NS_PUBSUB_EVENT
    /\ EventPayload(message).name = eventType
    /\ EventPayload(message).attrs = Put(EmptyDict, "node", nodeIdentifier)

\* C11: the message notifyPublish sends for a triple carries one Collection
\* header per subscription of the triple whose node is not the event's
\* node, in the order of the subscriptions and with that subscription's
\* node as its value, and nothing of the SHIM namespace when no
\* subscription differs or none is given; the messages of notifyDelete
\* never carry a header.
C11_CollectionHeader ==
    /\ Notified("notifyPublish") =>
        /\ Len(outbox) = Len(notified[1].notifications)
        /\ \A i \in 1..Len(outbox) :
            LET n == notified[1].notifications[i]
                d == Differing(n.subscriptions, notified[1].nodeIdentifier)
                hs == ShimHeaders(outbox[i])
            IN  /\ d = {} => NoShim(outbox[i])
                /\ d # {} =>
                    Len(ChildrenNamed(outbox[i], NS_SHIM, "headers")) = 1
                /\ Len(hs) = Cardinality(d)
                /\ \A k \in 1..Len(hs) :
                    /\ hs[k].attrs = Put(EmptyDict, "name", "Collection")
                    /\ \E j \in d :
                        /\ Cardinality({j2 \in d : j2 <= j}) = k
                        /\ hs[k].children = NodeText(n.subscriptions[1][j])
    /\ Notified("notifyDelete") =>
        \A i \in 1..Len(outbox) : NoShim(outbox[i])

C11_Witness ==
    /\ Notified("notifyPublish")
    /\ Len(outbox) = 2
    /\ NoShim(outbox[1])
    /\ Len(notified[1].notifications[1].subscriptions) = 1
    /\ Len(notified[1].notifications[1].subscriptions[1]) = 1
    /\ Len(ShimHeaders(outbox[2])) = 2
    /\ ShimHeaders(outbox[2])[2].children = <<"blog">>

\* C12: notifyDelete sends one message per subscriber, in order, from the
\* service to that subscriber with <delete node=nodeIdentifier/>; with a
\* redirectURI each <delete/> holds exactly one <redirect/>, whose uri is
\* the redirectURI, and without one no <delete/> holds a child.
C12_DeleteRedirect ==
    Notified("notifyDelete") =>
        /\ Len(outbox) = Len(notified[1].subscribers)
        /\ \A i \in 1..Len(outbox) :
            /\ IsNotification(outbox[i], "delete", notified[1].subscribers[i],
                              notified[1].nodeIdentifier)
            /\ notified[1].redirectURI = <<>> =>
                    EventPayload(outbox[i]).children = <<>>
            /\ notified[1].redirectURI # <<>> =>
                /\ Len(EventPayload(outbox[i]).children) = 1
                /\ EventPayload(outbox[i]).children[1].name = "redirect"
                /\ EventPayload(outbox[i]).children[1].attrs =
                        Put(EmptyDict, "uri", notified[1].redirectURI[1])

C12_Witness ==
    /\ Notified("notifyDelete")
    /\ notified[1].redirectURI # <<>>
    /\ Len(outbox) = 2
    /\ outbox[1].attrs["to"] # outbox[2].attrs["to"]
    /\ EventPayload(outbox[2]).children # <<>>

\* C13: notifyPublish with k triples sends exactly k messages, the i-th
\* from the service to the i-th subscriber with <items node=.../> for the
\* event's node whose children are the i-th triple's items in the given
\* order; with no triple nothing is sent.
C13_NotifyPublishOrder ==
    Notified("notifyPublish") =>
        /\ Len(outbox) = Len(notified[1].notifications)
        /\ \A i \in 1..Len(outbox) :
            /\ IsNotification(outbox[i], "items",
                              notified[1].notifications[i].subscriber,
                              notified[1].nodeIdentifier)
            /\ EventPayload(outbox[i]).children =
                    notified[1].notifications[i].items

C13_Witness ==
    /\ Notified("notifyPublish")
    /\ Len(outbox) = 2
    /\ notified[1].notifications[1].subscriber
            # notified[1].notifications[2].subscriber
    /\ Len(notified[1].notifications[1].items) = 2
    /\ notified[1].notifications[2].items = <<>>

\* the backend operation of the handled request returned a deferred that
\* fired with a value
Answered(verb) == handler = verb /\ backendDid.kind = "fired"

\* C14: when the backend answers a subscribe request with a Subscription
\* s, the response is <pubsub/> of the pubsub namespace with a single
\* <subscription/> whose jid is s.subscriber, whose subscription is
\* s.state and whose node is s.nodeIdentifier, left out when s has none.
C14_SubscribeResponse ==
    Answered("subscribe") =>
        /\ result.kind = "response"
        /\ Len(result.payload) = 1
        /\ result.payload[1].uri = NS_PUBSUB
        /\ result.payload[1].name = "pubsub"
        /\ Len(result.payload[1].children) = 1
        /\ LET el == result.payload[1].children[1]
               s == backendDid.value
           IN  /\ el.uri = NS_PUBSUB /\ el.name = "subscription"
               /\ el.children = <<>>
               /\ DOMAIN el.attrs \subseteq {"node", "jid", "subscription"}
               /\ el.attrs["jid"] = Full(s["subscriber"])
               /\ el.attrs["subscription"] = s["state"]
               /\ Has(el.attrs, "node") <=> Has(s, "nodeIdentifier")
               /\ Has(s, "nodeIdentifier") =>
                    el.attrs["node"] = s["nodeIdentifier"]

C14_Witness ==
    /\ Answered("subscribe")
    /\ Has(backendDid.value, "nodeIdentifier")
    /\ result.kind = "response"
    /\ result.payload[1].children[1].attrs =
            [node |-> "news", jid |-> SubscriberJidString,
             subscription |-> "subscribed"]

\* C15: when the backend answers a create request with the identifier a,
\* the response is <pubsub><create node=a/></pubsub> if the request names
\* no identifier or another one than a, and has no payload if the request
\* names a.
C15_CreateResponse ==
    Answered("create") =>
        /\ result.kind = "response"
        /\ IF Has(request, "nodeIdentifier")
                /\ request["nodeIdentifier"] = backendDid.value
           THEN result.payload = <<>>
           ELSE result.payload =
                <<Element(NS_PUBSUB, "pubsub", EmptyDict,
                    <<Element(NS_PUBSUB, "create",
                              Put(EmptyDict, "node", backendDid.value),
                              <<>>)>>)>>

C15_Witness ==
    /\ Answered("create")
    /\ Has(request, "nodeIdentifier")
    /\ request["nodeIdentifier"] = "news"
    /\ backendDid.value = "news"
    /\ result.kind = "response"
    /\ result.payload = <<>>

\* the call of the client method is answered and its deferred resolved
Resolved(call) == clientCall = call /\ clientResult.kind # "none"

\* C16: whatever identifier createNode suggests (none, the empty one, any
\* other), once the service's backend assigned a and the service's
\* response arrived, the deferred of createNode fires with a.
C16_CreateNodeEndToEnd ==
    (Resolved("createNode") /\ backendDid.kind = "fired") =>
        clientResult = [kind |-> "fired", value |-> <<backendDid.value>>]

C16_Witness ==
    /\ Resolved("createNode")
    /\ backendDid.kind = "fired"
    /\ Has(clientReq[1], "nodeIdentifier")
    /\ clientReq[1]["nodeIdentifier"] = "news"
    /\ result.kind = "response"
    /\ result.payload = <<>>
    /\ clientResult.kind = "fired"
    /\ clientResult.value = <<"news">>

\* C17: when the response to the client's subscribe call arrives, the
\* call fails with SubscriptionPending if its <subscription/> says
\* pending, with SubscriptionUnconfigured if it says unconfigured, and
\* fires with None for every other value; a Subscription that the backend
\* returns in state pending never lets the call fire.
C17_ClientSubscribe ==
    /\ (Resolved("subscribe") /\ result.kind = "response") =>
        LET st == result.payload[1].children[1].attrs["subscription"]
        IN  clientResult =
                CASE st = "pending" -> [kind |-> "failed",
                                        exc |-> SubscriptionPending]
                  [] st = "unconfigured" -> [kind |-> "failed",
                                             exc |-> SubscriptionUnconfigured]
                  [] OTHER -> [kind |-> "fired", value |-> <<>>]
    /\ (clientCall = "subscribe" /\ backendDid.kind = "fired"
            /\ backendDid.value["state"] = "pending") =>
        clientResult.kind # "fired"

C17_Witness ==
    /\ Resolved("subscribe")
    /\ backendDid.kind = "fired"
    /\ backendDid.value["state"] = "pending"
    /\ clientResult = [kind |-> "failed", exc |-> SubscriptionPending]

\* the Data Form children of the verb element of the handled stanza
FormChildren ==
    SelectSeq(VerbElementOf(stanza[1]).children, IsFormElement)

\* the form namespace and the values of a Data Form element, read off its
\* fields
FormNamespaceOf(el) ==
    IF Has(el.fields, "FORM_TYPE") THEN el.fields["FORM_TYPE"] ELSE ""

FormValuesOf(el) ==
    [k \in DOMAIN el.fields \ {"FORM_TYPE"} |-> el.fields[k]]

\* the Data Form children with the given form namespace
FormsOf(formNamespace) ==
    SelectSeq(FormChildren, LAMBDA el : FormNamespaceOf(el) = formNamespace)

\* the backend operations of the given name that were called
CallsOf(op) == SelectSeq(calls, LAMBDA c : c.op = op)

\* C18: a default request whose parsed nodeType is neither leaf nor
\* collection fails with not-acceptable and getDefaultConfiguration is not
\* called; a default request without a Data Form, or whose Data Forms are
\* not of type submit, has nodeType leaf and getDefaultConfiguration is
\* called once, with leaf.
C18_DefaultPrecheck ==
    handler = "default" =>
        /\ request["nodeType"] \notin {"leaf", "collection"} =>
            /\ result = [kind |-> "failed",
                         exc |-> StanzaError("not-acceptable", "",
                                             NoAppCondition)]
            /\ calls = <<>>
        /\ (\A i \in 1..Len(FormChildren) :
                FormChildren[i].attrs["type"] # "submit") =>
            /\ request["nodeType"] = "leaf"
            /\ Len(calls) = 1
            /\ calls[1].op = "getDefaultConfiguration"
            /\ calls[1].args["nodeType"] = "leaf"

C18_Witness ==
    /\ handler = "default"
    /\ Len(FormChildren) = 1
    /\ FormNamespaceOf(FormChildren[1]) = NS_PUBSUB_NODE_CONFIG
    /\ FormChildren[1].attrs["type"] = "submit"
    /\ request["nodeType"] = "foo"
    /\ result.kind = "failed"
    /\ calls = <<>>

\* the option schema of the running service
Schema == GetConfigurationOptions

\* the values a boolean field accepts
LegalBoolean == {"0", "1", "true", "false"}

\* every option of the request that the schema knows has a legal value
OptionsTypeCheck ==
    \A k \in DOMAIN request["options"] \cap DOMAIN Schema :
        Schema[k] = "boolean" => request["options"][k] \in LegalBoolean

\* C19 (as claimed): setConfiguration is called if and only if the
\* configureSet request carries non-empty options; when it is called, the
\* option names it gets are the request's option names that the schema
\* knows.
C19_SetConfigurationIffOptions ==
    handler = "configureSet" =>
        /\ Len(CallsOf("setConfiguration")) = 1
                <=> request["options"] # EmptyDict
        /\ Len(CallsOf("setConfiguration")) <= 1
        /\ \A i \in 1..Len(CallsOf("setConfiguration")) :
            DOMAIN CallsOf("setConfiguration")[i].args["options"]
                = DOMAIN request["options"] \cap DOMAIN Schema

\* C19 (amended): setConfiguration is called if and only if the
\* configureSet request carries non-empty options and every option that
\* the schema knows passes the type check of its field type; when it is
\* called, the options it gets are the request's options that the schema
\* knows, with their values; with empty options no backend operation is
\* called at all, and a failed type check raises before setConfiguration.
C19_SetConfigurationIffChecked ==
    handler = "configureSet" =>
        /\ Len(CallsOf("setConfiguration")) = 1
                <=> (request["options"] # EmptyDict /\ OptionsTypeCheck)
        /\ Len(CallsOf("setConfiguration")) <= 1
        /\ \A i \in 1..Len(CallsOf("setConfiguration")) :
            CallsOf("setConfiguration")[i].args["options"]
                = [k \in DOMAIN request["options"] \cap DOMAIN Schema |->
                        request["options"][k]]
        /\ request["options"] = EmptyDict => calls = <<>>
        /\ (request["options"] # EmptyDict /\ ~OptionsTypeCheck) =>
                result.kind = "raised"

C19_Witness ==
    /\ handler = "configureSet"
    /\ backend = "custom"
    /\ DOMAIN request["options"] = {"pubsub#persist_items", "x-unknown"}
    /\ Len(CallsOf("setConfiguration")) = 1
    /\ CallsOf("setConfiguration")[1].args["options"]
            = Put(EmptyDict, "pubsub#persist_items", "1")

\* C20 (as claimed): configure and default read only a Data Form of the
\* node-config form namespace and options only one of the
\* subscribe-options form namespace, wherever it stands among the
\* children; without such a form configureSet is refused with 'Missing
\* configuration form', optionsSet with 'Missing options form', and
\* default has nodeType leaf.
C20_FormNamespaceScoped ==
    /\ (Asked({"configureSet"}) /\ FormsOf(NS_PUBSUB_NODE_CONFIG) = <<>>) =>
        RefusedWith(BadRequest("", "Missing configuration form"))
    /\ (Asked({"configureSet"}) /\ Len(FormsOf(NS_PUBSUB_NODE_CONFIG)) = 1
            /\ FormsOf(NS_PUBSUB_NODE_CONFIG)[1].attrs["type"] = "submit") =>
        /\ handler = "configureSet"
        /\ request["options"] = FormValuesOf(FormsOf(NS_PUBSUB_NODE_CONFIG)[1])
    /\ (Asked({"default"}) /\ FormsOf(NS_PUBSUB_NODE_CONFIG) = <<>>) =>
        /\ handler = "default"
        /\ request["nodeType"] = "leaf"
    /\ (Asked({"default"}) /\ Len(FormsOf(NS_PUBSUB_NODE_CONFIG)) = 1
            /\ FormsOf(NS_PUBSUB_NODE_CONFIG)[1].attrs["type"] = "submit") =>
        /\ handler = "default"
        /\ request["nodeType"] =
            IF Has(FormsOf(NS_PUBSUB_NODE_CONFIG)[1].fields, "pubsub#node_type")
            THEN FormsOf(NS_PUBSUB_NODE_CONFIG)[1].fields["pubsub#node_type"]
            ELSE "leaf"
    /\ (Asked({"optionsSet"}) /\ Has(request, "subscriber")
            /\ FormsOf(NS_PUBSUB_SUBSCRIBE_OPTIONS) = <<>>) =>
        RefusedWith(BadRequest("", "Missing options form"))
    /\ (Asked({"optionsSet"}) /\ Has(request, "subscriber")
            /\ Len(FormsOf(NS_PUBSUB_SUBSCRIBE_OPTIONS)) = 1
            /\ FormsOf(NS_PUBSUB_SUBSCRIBE_OPTIONS)[1].attrs["type"]
                    = "submit") =>
        /\ handler = "optionsSet"
        /\ request["options"] =
                FormValuesOf(FormsOf(NS_PUBSUB_SUBSCRIBE_OPTIONS)[1])

\* the Data Form that the search in the verb element of the handled stanza
\* ends with: the last Data Form child
FoundForm == FormChildren[Len(FormChildren)]

\* C21: for a configureSet request, a found form of type submit gives
\* options equal to the form's values, one of type cancel gives the empty
\* mapping, one of any other type is refused with BadRequest 'Unexpected
\* form type' and no form at all is refused with BadRequest 'Missing
\* configuration form'; a refusal runs no handler and calls no backend
\* operation.
C21_ConfigureFormType ==
    Asked({"configureSet"}) =>
        IF FormChildren = <<>>
        THEN RefusedWith(BadRequest("", "Missing configuration form"))
        ELSE CASE FoundForm.attrs["type"] = "submit" ->
                    /\ handler = "configureSet"
                    /\ request["options"] = FormValuesOf(FoundForm)
               [] FoundForm.attrs["type"] = "cancel" ->
                    /\ handler = "configureSet"
                    /\ request["options"] = EmptyDict
               [] OTHER ->
                    RefusedWith(BadRequest("", "Unexpected form type"))

C21_Witness ==
    /\ Asked({"configureSet"})
    /\ Len(FormChildren) = 1
    /\ FoundForm.attrs["type"] = "form"
    /\ FormNamespaceOf(FoundForm) = NS_PUBSUB_NODE_CONFIG
    /\ result = [kind |-> "raised",
                 exc |-> BadRequest("", "Unexpected form type")]
    /\ calls = <<>>

\* the message is addressed: it has a from and a to
HasFromTo(message) == Has(message.attrs, "from") /\ Has(message.attrs, "to")

\* the action sub-elements of the message's <event/>: its children in the
\* pubsub-event namespace; the action element is the last of them
ActionsOf(message) ==
    SelectSeq(ChildrenNamed(message, NS_PUBSUB_EVENT, "event")[1].children,
              LAMBDA c : c.uri = NS_PUBSUB_EVENT)

ActionOf(message) == ActionsOf(message)[Len(ActionsOf(message))]

\* the callback of each action the client dispatches
CallbackOf ==
    "items" :> "itemsReceived" @@ "delete" :> "deleteReceived"
    @@ "purge" :> "purgeReceived"

\* the message has an action element named items, delete or purge
HasNamedAction(message) ==
    /\ ActionsOf(message) # <<>>
    /\ ActionOf(message).name \in DOMAIN CallbackOf

\* _onEvent invoked the callback of the message's action once and marked
\* the message handled
DispatchedOnce(d) ==
    /\ Len(d.calls) = 1
    /\ d.calls[1].callback = CallbackOf[ActionOf(d.message).name]
    /\ d.handled

\* _onEvent invoked no callback and did not mark the message handled
NotDispatched(d) == d.calls = <<>> /\ ~d.handled

\* C22 (as claimed): an event message with from and to and an action
\* element named items, delete or purge invokes the one callback of that
\* action once and is marked handled; a message without from or to, or
\* without an action element, invokes no callback and is not marked
\* handled.
C22_EventDispatch ==
    \A i \in 1..Len(delivered) :
        /\ (HasFromTo(delivered[i].message)
                /\ HasNamedAction(delivered[i].message)) =>
            DispatchedOnce(delivered[i])
        /\ (~HasFromTo(delivered[i].message)
                \/ ActionsOf(delivered[i].message) = <<>>) =>
            NotDispatched(delivered[i])

\* C22 (amended): an event message with from and to and an action element
\* named items, delete or purge that has a node attribute invokes the one
\* callback of that action once and is marked handled; when that action
\* element has no node attribute, KeyError is raised, no callback is
\* invoked and the message is not marked handled; a message without from
\* or to, or without an action element, invokes no callback and is not
\* marked handled.
C22_EventDispatchWithNode ==
    \A i \in 1..Len(delivered) :
        /\ (HasFromTo(delivered[i].message)
                /\ HasNamedAction(delivered[i].message)
                /\ Has(ActionOf(delivered[i].message).attrs, "node")) =>
            DispatchedOnce(delivered[i])
        /\ (HasFromTo(delivered[i].message)
                /\ HasNamedAction(delivered[i].message)
                /\ ~Has(ActionOf(delivered[i].message).attrs, "node")) =>
            /\ NotDispatched(delivered[i])
            /\ delivered[i].exc = KeyError
        /\ (~HasFromTo(delivered[i].message)
                \/ ActionsOf(delivered[i].message) = <<>>) =>
            NotDispatched(delivered[i])

C22_Witness ==
    /\ Len(delivered) = 1
    /\ HasFromTo(delivered[1].message)
    /\ Len(ActionsOf(delivered[1].message)) = 2
    /\ ActionsOf(delivered[1].message)[1].name = "delete"
    /\ ActionOf(delivered[1].message).name = "purge"
    /\ Len(delivered[1].calls) = 1
    /\ delivered[1].calls[1].callback = "purgeReceived"
    /\ delivered[1].handled

\* the event of the one callback _onEvent invoked for a delivered message
EventOf(d) == d.calls[1].event

\* _onEvent invoked this callback, and no other, once, with an event of
\* this class, sender, recipient and node
ReceivedOnce(d, callback, class, sender, recipient, nodeIdentifier) ==
    /\ Len(d.calls) = 1
    /\ d.calls[1].callback = callback
    /\ EventOf(d).class = class
    /\ EventOf(d).sender = sender
    /\ EventOf(d).recipient = recipient
    /\ EventOf(d).nodeIdentifier = nodeIdentifier

\* C27: the i-th message of notifyPublish, delivered to _onEvent, gives one
\* itemsReceived call with an ItemsEvent from the service to the i-th
\* subscriber for the event's node whose items are the i-th triple's
\* items, in order; the i-th message of notifyDelete gives one
\* deleteReceived call with a DeleteEvent whose redirectURI is the one
\* passed to notifyDelete, None when none was passed.
C27_NotificationRoundTrip ==
    /\ Notified("notifyPublish") =>
        \A i \in 1..Len(delivered) :
            /\ ReceivedOnce(delivered[i], "itemsReceived", "ItemsEvent",
                    notified[1].service,
                    notified[1].notifications[i].subscriber,
                    notified[1].nodeIdentifier)
            /\ EventOf(delivered[i]).items
                    = notified[1].notifications[i].items
    /\ Notified("notifyDelete") =>
        \A i \in 1..Len(delivered) :
            /\ ReceivedOnce(delivered[i], "deleteReceived", "DeleteEvent",
                    notified[1].service, notified[1].subscribers[i],
                    notified[1].nodeIdentifier)
            /\ EventOf(delivered[i]).redirectURI = notified[1].redirectURI

C27_Witness ==
    /\ Notified("notifyPublish")
    /\ Len(delivered) = 2
    /\ notified[1].notifications[1].subscriber
            # notified[1].notifications[2].subscriber
    /\ Len(notified[1].notifications[2].items) = 2
    /\ delivered[2].calls[1].callback = "itemsReceived"
    /\ EventOf(delivered[2]).items = notified[1].notifications[2].items
    /\ EventOf(delivered[2]).recipient = UserJID

\* the entries of a disco result
Entries(list) == {list[i] : i \in 1..Len(list)}

\* the deferred of the disco call fired with its result
DiscoReturned(op) == disco.op = op /\ disco.state = "fired"

\* the service identity that discoIdentity configures
ServiceIdentity(config) ==
    DiscoIdentity(config.discoIdentity["category"],
                  config.discoIdentity["type"],
                  <<config.discoIdentity["name"]>>)

\* the features a service announces: disco#items and one per declared
\* pubsub feature
ServiceFeatures(config) ==
    <<DiscoFeature(<<NS_DISCO_ITEMS>>)>>
    \o [i \in 1..Len(config.pubSubFeatures) |->
            DiscoFeature(<<NS_PUBSUB, "#", config.pubSubFeatures[i]>>)]

\* C23 (as claimed): the result of getDiscoInfo for an empty node
\* identifier holds the service identity with the category, type and name
\* that discoIdentity configures, the disco#items feature and one feature
\* NS_PUBSUB#f per declared feature f; for a non-empty node identifier it
\* holds no feature and no named identity.
C23_ServiceDiscoInfo ==
    DiscoReturned("getDiscoInfo") =>
        IF ~Given(disco.nodeIdentifier)
        THEN /\ ServiceIdentity(disco.config) \in Entries(disco.value)
             /\ Entries(ServiceFeatures(disco.config))
                    \subseteq Entries(disco.value)
        ELSE \A e \in Entries(disco.value) :
                /\ e.kind # "feature"
                /\ e.kind = "identity" => e.name = <<>>

\* the service is configured to hide its nodes
HidesNodes(config) == Has(config, "hideNodes") /\ config["hideNodes"]

\* C24 (as claimed): getDiscoItems returns the empty list and does not
\* call getNodes when a node identifier is given or the service hides its
\* nodes; otherwise, also on a freshly constructed service, it calls
\* getNodes and returns one disco item per node that getNodes gives, bound
\* to the target JID, in that order.
C24_DiscoItems ==
    disco.op = "getDiscoItems" =>
        IF Given(disco.nodeIdentifier) \/ HidesNodes(disco.config)
        THEN /\ disco.state = "fired"
             /\ disco.value = <<>>
             /\ disco.calls = <<>>
        ELSE /\ disco.state # "raised"
             /\ disco.calls = <<[op |-> "getNodes"]>>
             /\ disco.lookup.kind = "fired" =>
                /\ disco.state = "fired"
                /\ Len(disco.value) = Len(disco.lookup.value)
                /\ \A i \in 1..Len(disco.value) :
                    disco.value[i]
                        = DiscoItem(disco.target, disco.lookup.value[i])

\* the node info that the lookup of getDiscoInfo returned, if any
NodeInfoReturned ==
    /\ disco.lookup.kind = "fired"
    /\ disco.lookup.value # <<>>
    /\ DOMAIN disco.lookup.value[1] # {}

\* C29 (as claimed): the node lookup never makes getDiscoInfo fail: when
\* the deferred of getNodeInfo fired with node info, fired with nothing or
\* failed, the deferred of getDiscoInfo fires with the info list, which
\* begins with the service identity and features when the node identifier
\* is empty, and goes on with the node's identity and meta-data form only
\* when node info was returned.
C29_DiscoInfoNeverFails ==
    disco.op = "getDiscoInfo" =>
        /\ disco.calls # <<>> => disco.state \in {"pending", "fired"}
        /\ disco.lookup.kind # "none" =>
            LET service == IF Given(disco.nodeIdentifier) THEN <<>>
                           ELSE <<ServiceIdentity(disco.config)>>
                                \o ServiceFeatures(disco.config)
            IN  /\ disco.state = "fired"
                /\ Len(disco.value) >= Len(service)
                /\ SubSeq(disco.value, 1, Len(service)) = service
                /\ Len(disco.value) > Len(service) => NodeInfoReturned
                /\ \A i \in (Len(service) + 1)..Len(disco.value) :
                    \/ disco.value[i].kind = "form"
                    \/ /\ disco.value[i].kind = "identity"
                       /\ disco.value[i].name = <<>>

\* the handled stanza with nothing in its <pubsub/> but its verb element
OnlyVerbElement(iq) ==
    [iq EXCEPT !.pubsub.children = <<VerbElementOf(iq)>>]

\* C28: of several children of <pubsub/>, the first one whose (iqType,
\* namespace, name) is in the verb table gives the request's verb;
\* children before it that the table does not know are skipped, children
\* after it are ignored, and the parameters are read from that child: the
\* request, and the refusal if a parameter is refused, are those of the
\* stanza that holds that child alone.
C28_FirstHit ==
    (stanza # <<>> /\ TableHits(stanza[1]) # {}) =>
        /\ request["verb"] = VerbOf(stanza[1])
        /\ request = ParseElement(OnlyVerbElement(stanza[1])).request
        /\ (handler = "none") <=>
                (ParseElement(OnlyVerbElement(stanza[1])).exc # NoExc)
        /\ handler = "none" =>
                /\ result.kind = "raised"
                /\ result.exc = ParseElement(OnlyVerbElement(stanza[1])).exc
        /\ (Has(VerbElementOf(stanza[1]).attrs, "node")
                /\ Has(request, "nodeIdentifier")) =>
            request["nodeIdentifier"] = VerbElementOf(stanza[1]).attrs["node"]

C28_Witness ==
    /\ stanza # <<>>
    /\ stanza[1].type = "get"
    /\ Len(stanza[1].pubsub.children) = 3
    /\ TableHits(stanza[1]) = {3}
    /\ stanza[1].pubsub.children[2].name = "publish"
    /\ stanza[1].pubsub.children[2].attrs["node"] = "blog"
    /\ handler = "items"
    /\ request["nodeIdentifier"] = "news"

\* the request names no verb of the table, or a verb with the `node`
\* parameter and no or an empty node identifier
UnrenderableRequest(r) ==
    \/ ~Has(r, "verb")
    \/ r["verb"] \notin Verbs
    \/ /\ \E i \in 1..Len(Parameters[r["verb"]]) :
            Parameters[r["verb"]][i] = "node"
       /\ ~TruthyStr(r, "nodeIdentifier")

\* nothing went out and nothing waits for a reply: no IQ was handed to
\* iq.send(), the service saw no stanza, no deferred is pending and no
\* call of the client waits for or got a result
NothingSent ==
    /\ sendResult.sent = <<>>
    /\ stanza = <<>>
    /\ handler = "none"
    /\ calls = <<>>
    /\ deferred.state = "none"
    /\ result.kind = "none"
    /\ clientResult.kind = "none"
    /\ outbox = <<>>

\* C30: send() on a request whose verb is not in the verb table, or whose
\* verb has the `node` parameter while the node identifier is absent or
\* empty, raises (NotImplementedError for the verb, Exception for the
\* node), and whenever send() raises, nothing has been sent: no IQ is
\* dispatched and no response is waited for.
C30_SendFailureFrame ==
    \A i \in 1..Len(clientReq) :
        /\ UnrenderableRequest(clientReq[i]) =>
            sendResult.exc =
                IF Has(clientReq[i], "verb") /\ clientReq[i]["verb"] \in Verbs
                THEN PlainException ELSE NotImplementedError
        /\ sendResult.exc # NoExc => NothingSent

C30_Witness ==
    /\ clientReq # <<>>
    /\ Has(clientReq[1], "verb")
    /\ clientReq[1]["verb"] = "items"
    /\ Has(clientReq[1], "nodeIdentifier")
    /\ clientReq[1]["nodeIdentifier"] = ""
    /\ Has(clientReq[1], "maxItems")
    /\ sendResult.exc = PlainException
    /\ sendResult.sent = <<>>
    /\ stanza = <<>>
    /\ clientResult.kind = "none"

\* the node identifier a request of the stream asked for, read from the
\* verb element of its own stanza
OwnNode(e) == VerbElementOf(e.iq).attrs["node"]

\* the verb element of the response composed for a request of the stream
ResponseVerbElement(e) == e.result.payload[1].children[1]

\* the result of the request e is composed from e's stanza and from what
\* e's own deferred resolved to
OwnResponse(e) ==
    /\ e.request = ParseElement(e.iq).request
    /\ e.state = "failed" => e.result = [kind |-> "failed",
                                         exc |-> e.outcome.exc]
    /\ (e.state = "fired" /\ e.callback) =>
        /\ e.result.kind = "response" /\ e.result.composed
        /\ e.handler = "items" =>
            /\ ResponseVerbElement(e).attrs["node"] = OwnNode(e)
            /\ ResponseVerbElement(e).children = e.outcome.value
        /\ e.handler = "configureGet" =>
            ResponseVerbElement(e).attrs["node"] = OwnNode(e)
        /\ e.handler = "create" =>
            IF OwnNode(e) = e.outcome.value
            THEN e.result.payload = <<>>
            ELSE ResponseVerbElement(e).attrs["node"] = e.outcome.value

\* C25: with several requests outstanding on one service and their
\* deferreds resolving in any order, the response composed for a request
\* uses only that request's own fields and its own backend result: the node
\* of an items or configureGet response is the node of the request's own
\* stanza, the items are those its own deferred fired with, a create
\* response is empty exactly when the node its own stanza asked for is the
\* node its own deferred fired with, and a failure is its own deferred's.
C25_RequestIsolation ==
    \A i \in 1..Len(stream.entries) : OwnResponse(stream.entries[i])

\* two items requests for different nodes, the one that arrived later
\* answered first, each with the items of its own deferred
C25_Witness ==
    /\ Len(stream.entries) = 2
    /\ stream.completed = <<2, 1>>
    /\ \A i \in 1..2 : /\ stream.entries[i].handler = "items"
                       /\ stream.entries[i].state = "fired"
    /\ OwnNode(stream.entries[1]) # OwnNode(stream.entries[2])
    /\ stream.entries[1].outcome.value # stream.entries[2].outcome.value

\* the backend operations of the log: the calls that yield a deferred (the
\* option schema read through getConfigurationOptions is not one of them)
BackendOperations ==
    SelectSeq(stream.backendLog, LAMBDA c : c.op \in DOMAIN BackendFeature)

\* the requests whose handler returned a pending deferred
Waited(i) == stream.entries[i].state # "done"

\* the results produced for requests that waited for a deferred, in the
\* order they were produced
DeferredAnswers == SelectSeq(stream.answered, Waited)

====
